---- MODULE Spec2Model ----
(***************************************************************************)
(* Model of the zcf-init-project scanner: the file filter / ignore-rule    *)
(* engine (FileFilterSystem), project-type detection and module discovery  *)
(* (DetectorManager) and the phased scan orchestrator (BaseScanner and its *)
(* one concrete subclass, QuickScanner).                                   *)
(*                                                                         *)
(* A path is the tuple of its segments relative to the scan root; <<>> is  *)
(* the root itself.                                                        *)
(***************************************************************************)
EXTENDS Integers, Sequences, FiniteSets, TLC

VARIABLES
    fileFilter,   \* a FileFilterSystem: includeFilters, excludeFilters, ignoreRules, ignoreCache
    cacheStat,    \* history: for each cached path, whether fs.stat succeeded when it was cached
    lastCall,     \* history: the last shouldInclude call and what it returned (NoCall after a mutator)
    tree,         \* the directory tree handed to DetectorManager.findModules
    found,        \* the findModules call made on it: NoCall, or [maxDepth, modules]
    config,       \* BaseScanner.config: performanceLimits and fileFilters
    scanResult,   \* BaseScanner.scanResult, the accumulator shared by all scans of the instance
    currentPhase, \* BaseScanner.currentPhase
    scan,         \* the scan invocation in progress or last ended: its position, inputs and history
                  \* (started: the phase records created; enumerated: the files each phase listed;
                  \* limitRaised: the error shouldStopScan threw)
    scans,        \* number of scan invocations made on the instance
    errorListener, \* whether a listener for the 'error' event is registered on the scanner
    registry,     \* DetectorManager.detectors: the registered detectors, in the insertion order of the Map
    managerCall,  \* history: the last detectProjectType / analyzeModule call on the manager and
                  \* its outcome (NoCall after the registry changed)
    scanOnlyCall  \* history: the last ZcfInitProject.scanOnly call and its outcome

filterVars == <<fileFilter, cacheStat, lastCall>>
moduleVars == <<tree, found>>
scanVars == <<config, scanResult, currentPhase, scan, scans, errorListener>>
managerVars == <<registry, managerCall>>
entryVars == <<registry, managerCall, scanOnlyCall>>
vars == <<fileFilter, cacheStat, lastCall, tree, found, config, scanResult, currentPhase, scan, scans,
          errorListener, registry, managerCall, scanOnlyCall>>

NoCall == [called |-> FALSE]

(***************************************************************************)
(* Bounds of the model.                                                    *)
(***************************************************************************)
MaxIgnoreRules == 4
MaxFilters == 13
MaxDirs == 3
MaxDepthArg == 2
MaxScans == 2

(***************************************************************************)
(* Glob patterns.  minimatch(path, pattern, {dot: true}) is a library      *)
(* call; it is tabulated over the paths of the model.  A pattern outside   *)
(* the table matches no path of the model ("[" is malformed: minimatch     *)
(* throws, matchPattern answers false).                                    *)
(***************************************************************************)
SourceGlob == "**/*.{js,ts,jsx,tsx,py,go,rs,java,cpp,c,h,hpp}"
ConfigGlob == "**/*.{json,yaml,yml,toml,xml,ini,conf,config}"
DocGlob == "**/*.{md,txt,rst,adoc}"
BinaryGlob == "**/*.{exe,dll,so,dylib,a,lib}"
MediaGlob == "**/*.{mp4,avi,mov,wmv,flv,webm,mkv,mp3,wav,flac}"
ArchiveGlob == "**/*.{zip,tar,gz,bz2,rar,7z}"
FontGlob == "**/*.{ttf,otf,woff,woff2,eot}"
ImageGlob == "**/*.{psd,tiff,bmp}"

TopLevelFiles ==
    { <<"debug.log">>, <<"lib.zip">>, <<"notes">>, <<"package.json">>, <<"go.mod">>,
      <<"main.go">>, <<".gitignore">>, <<"pom.xml">>, <<"Cargo.toml">> }

GlobMatches(pattern) ==
    CASE pattern = SourceGlob ->
            { <<"src", "a.ts">>, <<"main.go">>, <<"packages", "a", "index.js">> }
      [] pattern = ConfigGlob ->
            { <<"package.json">>, <<"packages", "a", "package.json">>,
              <<"packages", "b", "pyproject.toml">>, <<"pom.xml">>, <<"Cargo.toml">>,
              <<"locked", "package.json">> }
      [] pattern = "**/package.json" ->
            { <<"package.json">>, <<"packages", "a", "package.json">>,
              <<"locked", "package.json">> }
      [] pattern = "**/go.mod" -> { <<"go.mod">>, <<"svc", "go.mod">> }
      [] pattern = "**/pyproject.toml" -> { <<"packages", "b", "pyproject.toml">> }
      [] pattern = ArchiveGlob -> { <<"lib.zip">> }
      [] pattern = ".gitignore" -> { <<".gitignore">> }
      [] pattern = "*.log" -> { <<"debug.log">> }
      [] pattern = "src/**" -> { <<"src", "a.ts">> }
      [] pattern = "notes" -> { <<"notes">> }
      [] pattern = "*" -> TopLevelFiles
      [] pattern = "packages/a/**" ->
            { <<"packages", "a", "package.json">>, <<"packages", "a", "index.js">> }
      [] OTHER -> {}

matchPattern(path, pattern) == path \in GlobMatches(pattern)

(***************************************************************************)
(* FileFilterSystem.  Its default filters, in the source's order, and,     *)
(* of its 47 default ignore rules, the two that match a path of the model. *)
(***************************************************************************)
defaultIncludeFilters ==
    << [pattern |-> SourceGlob, action |-> "include", priority |-> 10],
       [pattern |-> ConfigGlob, action |-> "include", priority |-> 9],
       [pattern |-> DocGlob, action |-> "include", priority |-> 8],
       [pattern |-> "**/package.json", action |-> "include", priority |-> 10],
       [pattern |-> "**/go.mod", action |-> "include", priority |-> 10],
       [pattern |-> "**/pyproject.toml", action |-> "include", priority |-> 10] >>

defaultExcludeFilters ==
    << [pattern |-> BinaryGlob, action |-> "exclude", priority |-> 10],
       [pattern |-> MediaGlob, action |-> "exclude", priority |-> 10],
       [pattern |-> ArchiveGlob, action |-> "exclude", priority |-> 9],
       [pattern |-> FontGlob, action |-> "exclude", priority |-> 8],
       [pattern |-> ImageGlob, action |-> "exclude", priority |-> 7] >>

defaultIgnoreRules ==
    << [pattern |-> ".gitignore", priority |-> 10],
       [pattern |-> "*.log", priority |-> 5] >>

\* Array.prototype.sort((a, b) => b.priority - a.priority): stable, descending.
InsertDesc(t, x) ==
    LET k == Cardinality({i \in 1..Len(t) : t[i].priority >= x.priority})
    IN SubSeq(t, 1, k) \o <<x>> \o SubSeq(t, k + 1, Len(t))

RECURSIVE SortDesc(_)
SortDesc(s) ==
    IF s = <<>> THEN <<>>
    ELSE InsertDesc(SortDesc(SubSeq(s, 1, Len(s) - 1)), s[Len(s)])

\* initializeDefaultFilters and initializeDefaultIgnoreRules on empty lists.
initializeDefaults ==
    [includeFilters |-> defaultIncludeFilters,
     excludeFilters |-> defaultExcludeFilters,
     ignoreRules |-> defaultIgnoreRules,
     ignoreCache |-> <<>>]

addFilters(ff, filters) ==
    [ff EXCEPT
        !.includeFilters = SortDesc(@ \o SelectSeq(filters, LAMBDA f : f.action = "include")),
        !.excludeFilters = SortDesc(@ \o SelectSeq(filters, LAMBDA f : f.action # "include"))]

addIgnoreRules_keepCache(ff, rules) ==
    [ff EXCEPT !.ignoreRules = SortDesc(@ \o rules)]

addIgnoreRules(ff, rules) ==
    [ff EXCEPT !.ignoreRules = SortDesc(@ \o rules), !.ignoreCache = <<>>]

\* new FileFilterSystem(config): config.filters and config.ignoreRules are optional.
NewFileFilterSystem(cfg) ==
    LET withFilters == IF cfg.hasFilters THEN addFilters(initializeDefaults, cfg.filters)
                       ELSE initializeDefaults
    IN IF cfg.hasIgnoreRules THEN addIgnoreRules(withFilters, cfg.ignoreRules)
       ELSE withFilters

NoFilterConfig == [hasFilters |-> FALSE, filters |-> <<>>, hasIgnoreRules |-> FALSE, ignoreRules |-> <<>>]

shouldIgnore(ff, relativePath) ==
    \E i \in 1..Len(ff.ignoreRules) : matchPattern(relativePath, ff.ignoreRules[i].pattern)

applyFilters(ff, relativePath) ==
    IF \E i \in 1..Len(ff.excludeFilters) : matchPattern(relativePath, ff.excludeFilters[i].pattern)
    THEN FALSE
    ELSE IF \E i \in 1..Len(ff.includeFilters) : matchPattern(relativePath, ff.includeFilters[i].pattern)
    THEN TRUE
    ELSE TRUE

\* The body of shouldInclude below the cache lookup: fs.stat, ignore rules, filters.
computeInclude(ff, relativePath, statOk) ==
    IF ~statOk THEN FALSE
    ELSE IF shouldIgnore(ff, relativePath) THEN FALSE
    ELSE applyFilters(ff, relativePath)

\* shouldInclude: the returned value, the object afterwards, and whether the cache answered.
shouldInclude(ff, relativePath, statOk) ==
    IF relativePath \in DOMAIN ff.ignoreCache
    THEN [result |-> ff.ignoreCache[relativePath], ff |-> ff, cached |-> TRUE]
    ELSE LET r == computeInclude(ff, relativePath, statOk)
         IN [result |-> r,
             ff |-> [ff EXCEPT !.ignoreCache = (relativePath :> r) @@ @],
             cached |-> FALSE]

\* filterFiles: shouldInclude on each path; broken are the paths fs.stat fails on.
filterFiles(ff, filePaths, broken) ==
    LET decided == [p \in filePaths |-> shouldInclude(ff, p, p \notin broken).result]
        cache == ff.ignoreCache
    IN [files |-> { p \in filePaths : decided[p] },
        ff |-> [ff EXCEPT !.ignoreCache =
                   [p \in (DOMAIN cache) \cup filePaths |->
                       IF p \in DOMAIN cache THEN cache[p] ELSE decided[p]]]]

reset(ff) == initializeDefaults

importConfig(ff, cfg) ==
    addIgnoreRules(addFilters(reset(ff), cfg.filters), cfg.ignoreRules)

\* loadGitignore: content is what readFile gives; lines are trimmed, blank lines
\* and comments dropped.
Trim(line) == IF line = " notes " THEN "notes" ELSE line

StartsWithHash(line) == line \in {"# build"}

gitignoreRules(lines) ==
    LET kept == SelectSeq(lines, LAMBDA l : Trim(l) # "" /\ ~StartsWithHash(Trim(l)))
    IN [i \in 1..Len(kept) |-> [pattern |-> Trim(kept[i]), priority |-> 6]]

loadGitignore(ff, content) ==
    IF ~content.readable THEN ff ELSE addIgnoreRules(ff, gitignoreRules(content.lines))

(***************************************************************************)
(* Detectors.  A listing is what the filesystem shows of one directory:    *)
(* the names that exist below it (fs.access) and whether readdir works.    *)
(***************************************************************************)
UNKNOWN == "unknown"

Undefined == "undefined"

EndsWith(name, ext) ==
    CASE ext = ".go" -> name \in {"main.go"}
      [] ext = ".py" -> name \in {"setup.py", "app.py"}
      [] OTHER -> FALSE

JavaScriptPatterns ==
    << "package.json", "package-lock.json", "yarn.lock", "pnpm-lock.yaml",
       "tsconfig.json", "jsconfig.json", "tsconfig.base.json" >>

PythonPatterns ==
    << "pyproject.toml", "setup.py", "requirements.txt", "requirements-dev.txt",
       "requirements.in", "Pipfile", "Pipfile.lock", "poetry.lock", "setup.cfg",
       "tox.ini", "pytest.ini", ".python-version" >>

GoPatterns ==
    << "go.mod", "go.sum", "main.go", "cmd/**/*.go", "pkg/**/*.go",
       "internal/**/*.go", "api/**/*.go", "vendor/**/*" >>

JavaScriptDetect(listing) == "package.json" \in listing.files

hasPythonFiles(listing) ==
    listing.readable /\ \E f \in listing.files : EndsWith(f, ".py")

PythonDetect(listing) ==
    \/ listing.files \cap {"pyproject.toml", "setup.py", "requirements.txt", "Pipfile", "setup.cfg"} # {}
    \/ hasPythonFiles(listing)

hasGoFiles(listing) ==
    listing.readable /\ \E f \in listing.files : EndsWith(f, ".go")

GoDetect(listing) ==
    \/ listing.files \cap {"go.mod", "main.go", "cmd/main.go"} # {}
    \/ hasGoFiles(listing)

\* The registry, in the insertion order of the Map; one detector object serves
\* both javascript and typescript.
initializeDetectors ==
    << [type |-> "javascript", detector |-> "JavaScript/TypeScript"],
       [type |-> "typescript", detector |-> "JavaScript/TypeScript"],
       [type |-> "python", detector |-> "Python"],
       [type |-> "go", detector |-> "Go"] >>

\* A detector of the caller's own, handed to registerDetector.
RustPatterns == << "Cargo.toml" >>

RustDetect(listing) == "Cargo.toml" \in listing.files

DetectorPatterns(detector) ==
    CASE detector = "JavaScript/TypeScript" -> JavaScriptPatterns
      [] detector = "Python" -> PythonPatterns
      [] detector = "Go" -> GoPatterns
      [] detector = "Rust" -> RustPatterns

DetectorDetect(detector, listing) ==
    CASE detector = "JavaScript/TypeScript" -> JavaScriptDetect(listing)
      [] detector = "Python" -> PythonDetect(listing)
      [] detector = "Go" -> GoDetect(listing)
      [] detector = "Rust" -> RustDetect(listing)

Includes(seq, x) == \E i \in 1..Len(seq) : seq[i] = x

Min(a, b) == IF a < b THEN a ELSE b

\* checkPatternMatch is async: the filter callback gets a Promise, which is
\* truthy, so every declared pattern is counted whatever is on disk.
calculateConfidence(type, detector) ==
    LET patterns == DetectorPatterns(detector)
        patternMatches == Len(SelectSeq(patterns, LAMBDA pattern : TRUE))
        bonus == CASE type = "typescript" /\ Includes(patterns, "tsconfig.json") -> 20
                   [] type = "python" /\ Includes(patterns, "pyproject.toml") -> 15
                   [] type = "go" /\ Includes(patterns, "go.mod") -> 25
                   [] OTHER -> 0
    IN Min(100, 50 + patternMatches * 10 + bonus)

highestConfidence_last(detectionResults) ==
    IF Len(detectionResults) = 0 THEN UNKNOWN
    ELSE detectionResults[Len(detectionResults)].type

highestConfidence(detectionResults) ==
    IF Len(detectionResults) = 0 THEN UNKNOWN
    ELSE SortDesc(detectionResults)[1].type

scoreAll(matching) ==
    [i \in 1..Len(matching) |->
        [type |-> matching[i].type,
         priority |-> calculateConfidence(matching[i].type, matching[i].detector)]]

detectProjectType(detectors, listing) ==
    highestConfidence(scoreAll(SelectSeq(detectors, LAMBDA e : DetectorDetect(e.detector, listing))))

isModuleRoot(detectors, listing) == detectProjectType(detectors, listing) # UNKNOWN

getDetector(detectors, type) ==
    LET hits == SelectSeq(detectors, LAMBDA e : e.type = type)
    IN IF hits = <<>> THEN Undefined ELSE hits[1].detector

(***************************************************************************)
(* Directory trees for module discovery.  Directory 0 is the root;         *)
(* directory d > 0 lies in parent[d] < d; files[d] are the names of the    *)
(* files directly in d.                                                    *)
(***************************************************************************)
Dirs == 1..MaxDirs
AllDirs == 0..MaxDirs

DirContents == { {}, {"package.json"}, {"go.mod", "main.go"} }

AtMostOne(S) == { T \in SUBSET S : Cardinality(T) <= 1 }

Trees ==
    { [parent |-> p, files |-> f, hidden |-> h, unreadable |-> u] :
        p \in { q \in [Dirs -> AllDirs] : \A d \in Dirs : q[d] < d },
        f \in [AllDirs -> DirContents],
        h \in AtMostOne(Dirs),
        u \in AtMostOne(AllDirs) }

EmptyTree ==
    [parent |-> [d \in Dirs |-> 0], files |-> [d \in AllDirs |-> {}],
     hidden |-> {}, unreadable |-> {}]

Children(t, d) == { c \in Dirs : t.parent[c] = d }

RECURSIVE Ancestors(_, _)
Ancestors(t, d) ==
    IF d = 0 THEN {} ELSE {t.parent[d]} \cup Ancestors(t, t.parent[d])

TreeListing(t, d) == [files |-> t.files[d], readable |-> d \notin t.unreadable]

\* readdir lists the entries of a directory; the model lists them by number.
RECURSIVE Ascending(_)
Ascending(S) ==
    IF S = {} THEN <<>>
    ELSE LET m == CHOOSE x \in S : \A y \in S : x <= y
         IN <<m>> \o Ascending(S \ {m})

(***************************************************************************)
(* DetectorManager.findModules.  scanDirectory is a function declaration   *)
(* called as scanDirectory(...): in a module its `this` is undefined, so   *)
(* this.isModuleRoot raises a TypeError, which the catch of the enclosing  *)
(* try absorbs, ending the loop over the entries.                          *)
(***************************************************************************)
PlainCallThis == Undefined

RECURSIVE scanEntries(_, _, _, _, _, _)
scanDirectory(self, detectors, t, currentPath, depth, maxDepth) ==
    IF depth > maxDepth THEN <<>>
    ELSE IF currentPath \in t.unreadable THEN <<>>
    ELSE scanEntries(self, detectors, t, Ascending(Children(t, currentPath)), depth, maxDepth)

scanEntries(self, detectors, t, entries, depth, maxDepth) ==
    IF entries = <<>> THEN <<>>
    ELSE LET fullPath == Head(entries)
         IN IF fullPath \in t.hidden
            THEN scanEntries(self, detectors, t, Tail(entries), depth, maxDepth)
            ELSE IF self = Undefined
            THEN <<>>
            ELSE IF isModuleRoot(detectors, TreeListing(t, fullPath))
            THEN <<fullPath>> \o scanEntries(self, detectors, t, Tail(entries), depth, maxDepth)
            ELSE scanDirectory(PlainCallThis, detectors, t, fullPath, depth + 1, maxDepth)
                     \o scanEntries(self, detectors, t, Tail(entries), depth, maxDepth)

\* A findModules that records every module root within maxDepth, also below another one.
findModules_descending(detectors, t, maxDepth) ==
    Ascending({ d \in Dirs :
                  /\ isModuleRoot(detectors, TreeListing(t, d))
                  /\ ({d} \cup Ancestors(t, d)) \cap t.hidden = {}
                  /\ Ancestors(t, d) \cap t.unreadable = {}
                  /\ Cardinality(Ancestors(t, d)) - 1 <= maxDepth })

findModules(detectors, t, maxDepth) ==
    scanDirectory(PlainCallThis, detectors, t, 0, 0, maxDepth)

(***************************************************************************)
(* DetectorManager as an object of its own: the registry can be changed    *)
(* by registerDetector / unregisterDetector, and analyzeModule hands the   *)
(* directory to the detector registered for the type.                      *)
(*                                                                         *)
(* A line of go.mod is the tuple of its whitespace-separated words, so     *)
(* trim() is implicit and an empty line is <<>>.                           *)
(***************************************************************************)
RECURSIVE JoinWords(_)
JoinWords(words) ==
    IF Len(words) = 0 THEN ""
    ELSE IF Len(words) = 1 THEN words[1]
    ELSE words[1] \o " " \o JoinWords(Tail(words))

NoFile == [exists |-> FALSE, readable |-> FALSE, lines |-> <<>>]

TextFile(lines) == [exists |-> TRUE, readable |-> TRUE, lines |-> lines]

\* readFile: null when the file cannot be read.
readFile(file) ==
    IF file.exists /\ file.readable THEN [isNull |-> FALSE, lines |-> file.lines]
    ELSE [isNull |-> TRUE, lines |-> <<>>]

NullGoMod ==
    [isNull |-> TRUE, module |-> "", go |-> "", hasRequire |-> FALSE, require |-> <<>>,
     hasReplace |-> FALSE, replace |-> <<>>]

StartsWithWord(line, word) == Len(line) >= 2 /\ line[1] = word

\* /([^\s]+)\s+=>\s+([^\s]+)(?:\s+([^\s]+))?/ finds the first "old => new [version]".
ArrowAt(words) ==
    IF \E i \in 2..(Len(words) - 1) : words[i] = "=>"
    THEN CHOOSE i \in 2..(Len(words) - 1) :
             words[i] = "=>" /\ \A j \in 2..(i - 1) : words[j] # "=>"
    ELSE 0

replaceEntry(words) ==
    LET i == ArrowAt(words)
    IN [old |-> words[i - 1], new |-> words[i + 1],
        version |-> IF Len(words) >= i + 2 THEN words[i + 2] ELSE ""]

\* One pass of the loop body of readGoMod over a line.  /([^\s]+)\s+([^\s]+)/ finds the
\* first two words of the text, if it has two.
parseGoModLine(goMod, line) ==
    IF StartsWithWord(line, "module") THEN [goMod EXCEPT !.module = JoinWords(Tail(line))]
    ELSE IF StartsWithWord(line, "go") THEN [goMod EXCEPT !.go = JoinWords(Tail(line))]
    ELSE IF Len(line) >= 1 /\ line[1] = "require" THEN
        IF Len(line) >= 3 /\ line[2] # "("
        THEN [goMod EXCEPT !.hasRequire = TRUE,
                           !.require = @ \o << [path |-> line[2], version |-> line[3]] >>]
        ELSE goMod
    ELSE IF Len(line) >= 1 /\ line[1] # "//" /\ goMod.hasRequire THEN
        IF Len(line) >= 2
        THEN [goMod EXCEPT !.require = @ \o << [path |-> line[1], version |-> line[2]] >>]
        ELSE goMod
    ELSE IF Len(line) >= 1 /\ line[1] = "replace" THEN
        IF Len(line) >= 2 /\ line[2] # "(" /\ ArrowAt(Tail(line)) # 0
        THEN [goMod EXCEPT !.hasReplace = TRUE,
                           !.replace = @ \o << replaceEntry(Tail(line)) >>]
        ELSE goMod
    ELSE IF Len(line) >= 1 /\ line[1] # "//" /\ goMod.hasReplace THEN
        IF ArrowAt(line) # 0
        THEN [goMod EXCEPT !.replace = @ \o << replaceEntry(line) >>]
        ELSE goMod
    ELSE goMod

RECURSIVE parseGoModLines(_, _)
parseGoModLines(goMod, lines) ==
    IF lines = <<>> THEN goMod
    ELSE parseGoModLines(parseGoModLine(goMod, Head(lines)), Tail(lines))

parsedContent(content) ==
    IF content.isNull \/ content.lines = <<>> THEN NullGoMod
    ELSE parseGoModLines([NullGoMod EXCEPT !.isNull = FALSE], content.lines)

readGoMod(dir) == parsedContent(readFile(dir.gomod))

\* The patterns of the list whose file exists below the directory, in list order.
existing(dir, patterns) == SelectSeq(patterns, LAMBDA p : p \in dir.files)

NoInfo ==
    [name |-> "", type |-> "", description |-> "", engines |-> {}, dependencies |-> <<>>,
     entryPoints |-> <<>>, keyFiles |-> <<>>, testFiles |-> <<>>, configFiles |-> <<>>,
     docs |-> <<>>]

createBaseModuleInfo(type, name) == [NoInfo EXCEPT !.name = name, !.type = type]

\* What a detector's analyze does: it returns a ModuleInfo, throws, or never settles.
Returned(info) == [outcome |-> "returned", info |-> info, code |-> ""]

Thrown(code) == [outcome |-> "thrown", info |-> NoInfo, code |-> code]

Pending == [outcome |-> "pending", info |-> NoInfo, code |-> ""]

\* GoProjectDetector.extractModuleName: without a module path it calls itself again with the
\* same argument, so the promise never settles.
GoExtractModuleName(goMod) ==
    IF goMod.module # "" THEN Returned(createBaseModuleInfo("go", goMod.module)) ELSE Pending

extractDependencies(info, goMod) ==
    IF ~goMod.hasRequire THEN info
    ELSE [info EXCEPT !.dependencies =
             [i \in 1..Len(goMod.require) |->
                 [name |-> goMod.require[i].path, version |-> goMod.require[i].version,
                  type |-> "production"]]]

goModuleInfo_noEngines(base, goMod, dir) ==
    [extractDependencies(base, goMod) EXCEPT
        !.name = IF goMod.module # "" THEN goMod.module ELSE @]

goModuleInfo(base, goMod, dir) ==
    [extractDependencies(base, goMod) EXCEPT
        !.name = IF goMod.module # "" THEN goMod.module ELSE @,
        !.description = IF goMod.module # "" THEN "Go module: " \o goMod.module ELSE @,
        !.engines = IF goMod.go # "" THEN { <<"go", goMod.go>> } ELSE @,
        !.entryPoints = existing(dir, << "main.go", "cmd/main.go", "app/main.go",
                                         "server/main.go", "cli/main.go" >>),
        !.keyFiles = existing(dir, << "README.md", "README", "CHANGELOG.md", "LICENSE",
                                      "CONTRIBUTING.md" >>),
        !.testFiles = <<>>,
        !.configFiles = existing(dir,
            << "go.mod", "go.sum", "Makefile", "makefile", "Taskfile.yml", "Taskfile.yaml",
               "Dockerfile", "docker-compose.yml", "docker-compose.yaml", ".golangci.yml",
               ".golangci.yaml", ".golangci-lint.yml", "go.work", "go.work.sum", ".air.toml",
               "buf.yaml", "buf.gen.yaml", "buf.work.yaml" >>),
        !.docs = existing(dir, << "README.md", "README", "CHANGELOG.md", "LICENSE",
                                  "CONTRIBUTING.md" >>)]

goAnalyzeFrom(named, goMod, dir) ==
    IF named.outcome # "returned" THEN named
    ELSE Returned(goModuleInfo(named.info, goMod, dir))

GoAnalyze(dir) == goAnalyzeFrom(GoExtractModuleName(readGoMod(dir)), readGoMod(dir), dir)

\* JavaScriptProjectDetector.analyze, as far as the manager can tell: it throws when
\* package.json cannot be read or parsed.
JavaScriptAnalyze(dir) ==
    IF "package.json" \notin dir.files \/ dir.invalidJson THEN Thrown("Error")
    ELSE Returned(createBaseModuleInfo(
             IF dir.files \cap {"tsconfig.json", "tsconfig.base.json", "tsconfig.build.json",
                                "tsconfig.eslint.json"} # {}
             THEN "typescript" ELSE "javascript", dir.base))

PythonAnalyze(dir) == Returned(createBaseModuleInfo("python", dir.base))

RustAnalyze(dir) == Returned(createBaseModuleInfo("rust", dir.base))

DetectorAnalyze(detector, dir) ==
    CASE detector = "JavaScript/TypeScript" -> JavaScriptAnalyze(dir)
      [] detector = "Python" -> PythonAnalyze(dir)
      [] detector = "Go" -> GoAnalyze(dir)
      [] detector = "Rust" -> RustAnalyze(dir)

\* Map.set: a new key goes to the end of the iteration order, an existing key keeps its place.
registerDetector(detectors, type, detector) ==
    IF \E i \in 1..Len(detectors) : detectors[i].type = type
    THEN [i \in 1..Len(detectors) |->
             IF detectors[i].type = type THEN [type |-> type, detector |-> detector]
             ELSE detectors[i]]
    ELSE Append(detectors, [type |-> type, detector |-> detector])

\* Map.delete.
unregisterDetector(detectors, type) == SelectSeq(detectors, LAMBDA e : e.type # type)

\* A manager that analyses the directory by its base name when it has no detector.
analyzeTyped_lenient(detectors, dir, type) ==
    IF getDetector(detectors, type) = Undefined
    THEN Returned(createBaseModuleInfo(type, dir.base))
    ELSE DetectorAnalyze(getDetector(detectors, type), dir)

\* Whatever analyze throws is rethrown as a ScanError of the manager.
analyzeTyped(detectors, dir, type) ==
    IF type = UNKNOWN THEN Thrown("UNKNOWN_PROJECT_TYPE")
    ELSE IF getDetector(detectors, type) = Undefined THEN Thrown("DETECTOR_NOT_FOUND")
    ELSE IF DetectorAnalyze(getDetector(detectors, type), dir).outcome = "thrown"
         THEN Thrown("MODULE_ANALYSIS_FAILED")
    ELSE DetectorAnalyze(getDetector(detectors, type), dir)

\* projectType is Undefined when the caller leaves it out.
analyzeModule(detectors, dir, projectType) ==
    analyzeTyped(detectors, dir,
        IF projectType = Undefined THEN detectProjectType(detectors, dir) ELSE projectType)

(***************************************************************************)
(* Projects on disk, as handed to QuickScanner.scan.                       *)
(***************************************************************************)
Root == <<>>

NoGitignore == [readable |-> FALSE, lines |-> <<>>]

Projects ==
    { [name |-> "app",
       files |-> { <<"package.json">>, <<"debug.log">>, <<"lib.zip">> },
       dirs |-> {}, broken |-> {}, unreadable |-> {}, gitignore |-> NoGitignore],
      [name |-> "empty",
       files |-> {}, dirs |-> {}, broken |-> {}, unreadable |-> {}, gitignore |-> NoGitignore],
      [name |-> "lib",
       files |-> { <<"pom.xml">>, <<"src", "a.ts">> },
       dirs |-> { <<"src">> }, broken |-> {}, unreadable |-> {}, gitignore |-> NoGitignore],
      [name |-> "mono",
       files |-> { <<".gitignore">>, <<"packages", "a", "package.json">>,
                   <<"packages", "a", "index.js">>, <<"packages", "b", "pyproject.toml">> },
       dirs |-> { <<"packages">>, <<"packages", "a">>, <<"packages", "b">> },
       broken |-> {}, unreadable |-> {},
       gitignore |-> [readable |-> TRUE, lines |-> << "# build", "", "packages/a/**" >>]],
      [name |-> "gosvc",
       files |-> { <<"go.mod">>, <<"main.go">>, <<"notes">> },
       dirs |-> {}, broken |-> { <<"notes">> }, unreadable |-> {}, gitignore |-> NoGitignore] }

Last(p) == p[Len(p)]
Front(p) == SubSeq(p, 1, Len(p) - 1)

Entries(proj, dir) == { p \in proj.files \cup proj.dirs : p # Root /\ Front(p) = dir }

StartsWithDot(name) == name \in {".gitignore", ".git"}

ProjListing(proj, dir) ==
    [files |-> { Last(p) : p \in { q \in proj.files : Front(q) = dir } }
                 \cup (IF (dir \o <<"cmd", "main.go">>) \in proj.files THEN {"cmd/main.go"} ELSE {}),
     readable |-> dir \notin proj.unreadable]

Perms(S) ==
    { s \in [1..Cardinality(S) -> S] : \A i, j \in 1..Cardinality(S) : s[i] = s[j] => i = j }

\* Some order of the elements of S (the order of a Set's iteration, of readdir below the root).
RECURSIVE SeqOf(_)
SeqOf(S) ==
    IF S = {} THEN <<>>
    ELSE LET x == CHOOSE y \in S : TRUE IN <<x>> \o SeqOf(S \ {x})

(***************************************************************************)
(* Errors.                                                                 *)
(***************************************************************************)
NoError == [name |-> "none", code |-> "", message |-> "", path |-> "", phase |-> ""]

ScanError(message, code, path, phase) ==
    [name |-> "ScanError", code |-> code, message |-> message, path |-> path, phase |-> phase]

TypeError == [name |-> "TypeError", code |-> "", message |-> "Cannot read properties of undefined",
              path |-> "", phase |-> ""]

\* What EventEmitter.emit('error', event) throws when no 'error' listener is
\* registered and event is not an Error.
UnhandledError == [name |-> "Error", code |-> "ERR_UNHANDLED_ERROR", message |-> "Unhandled error.",
                   path |-> "", phase |-> ""]

\* emitEvent('error', ...): the error it throws, NoError when a listener takes the event.
emitErrorEvent(listening) == IF listening THEN NoError ELSE UnhandledError

(***************************************************************************)
(* ScanConfig.                                                             *)
(***************************************************************************)
DefaultMaxFiles == 100000
DefaultMaxDepth == 10
DefaultMemoryLimit == 536870912

\* ScanConfigManager.createDefault({performanceLimits: {maxFiles}}).
createDefault(maxFiles) ==
    LET fileFilterSystem == NewFileFilterSystem(NoFilterConfig)
    IN [fileFilters |-> fileFilterSystem.includeFilters \o fileFilterSystem.excludeFilters,
        ignoreRules |-> fileFilterSystem.ignoreRules,
        performanceLimits |-> [maxFiles |-> maxFiles, maxDepth |-> DefaultMaxDepth,
                               memoryLimit |-> DefaultMemoryLimit]]

\* ScanConfigManager.createDefault({performanceLimits: {maxFiles, memoryLimit},
\* customFilters}); hasCustom says whether the customFilters option is given.
createCustom(options) ==
    LET fileFilterSystem ==
            NewFileFilterSystem([hasFilters |-> options.hasCustom, filters |-> options.customFilters,
                                 hasIgnoreRules |-> FALSE, ignoreRules |-> <<>>])
    IN [fileFilters |-> fileFilterSystem.includeFilters \o fileFilterSystem.excludeFilters,
        ignoreRules |-> fileFilterSystem.ignoreRules,
        performanceLimits |-> [maxFiles |-> options.maxFiles, maxDepth |-> DefaultMaxDepth,
                               memoryLimit |-> options.memoryLimit]]

\* What the scanner keeps of its ScanConfig: the performance limits and the file filters.
ScannerConfig(scanConfig) ==
    [maxFiles |-> scanConfig.performanceLimits.maxFiles,
     maxDepth |-> scanConfig.performanceLimits.maxDepth,
     memoryLimit |-> scanConfig.performanceLimits.memoryLimit,
     fileFilters |-> scanConfig.fileFilters]

\* The QuickScanner constructor hands its ScanConfig to FileFilterSystem, which
\* reads config.filters and config.ignoreRules; a ScanConfig has no field `filters`.
QuickScannerFileFilter(scanConfig) ==
    NewFileFilterSystem([hasFilters |-> FALSE, filters |-> <<>>,
                         hasIgnoreRules |-> TRUE, ignoreRules |-> scanConfig.ignoreRules])

(***************************************************************************)
(* BaseScanner.                                                            *)
(***************************************************************************)
\* coverage is the number num / den * 100.
ZeroCoverage == [num |-> 0, den |-> 1]

CoverageBelow(c, percent) == c.num * 100 < percent * c.den

initializeScanResult ==
    [rootPath |-> "",
     projectType |-> UNKNOWN,
     modules |-> <<>>,
     scanStatistics |-> [totalFiles |-> 0, scannedFiles |-> 0, ignoredFiles |-> 0,
                         modulesFound |-> 0, scanDuration |-> 0, fileSize |-> 0,
                         linesOfCode |-> 0, coverage |-> ZeroCoverage],
     scanPhases |-> <<>>,
     recommendations |-> <<>>]

\* shouldStopScan: the code of the ScanError it throws, or "" when it returns false.
shouldStopScan(limits, stats) ==
    IF stats.totalFiles >= limits.maxFiles THEN "FILE_LIMIT_EXCEEDED"
    ELSE IF stats.fileSize >= limits.memoryLimit THEN "MEMORY_LIMIT_EXCEEDED"
    ELSE ""

RECURSIVE SumDurations(_)
SumDurations(records) ==
    IF records = <<>> THEN 0 ELSE Head(records).duration + SumDurations(Tail(records))

\* A final pass that adds its entries to those the phases have set.
generateRecommendations_merge(sr) ==
    [sr EXCEPT !.recommendations =
        @ \o (IF CoverageBelow(sr.scanStatistics.coverage, 50)
              THEN << [type |-> "scan_deeper", priority |-> "medium"] >> ELSE <<>>)
          \o (IF \E i \in 1..Len(sr.modules) : Len(sr.modules[i].docs) = 0
              THEN << [type |-> "add_docs", priority |-> "high"] >> ELSE <<>>)]

generateRecommendations(sr) ==
    LET low == IF CoverageBelow(sr.scanStatistics.coverage, 50)
               THEN << [type |-> "scan_deeper", priority |-> "medium"] >> ELSE <<>>
        modulesWithoutDocs == SelectSeq(sr.modules, LAMBDA m : Len(m.docs) = 0)
        docs == IF Len(modulesWithoutDocs) > 0
                THEN << [type |-> "add_docs", priority |-> "high"] >> ELSE <<>>
    IN [sr EXCEPT !.recommendations = low \o docs]

finalizeScan(sr) ==
    LET stats == sr.scanStatistics
        timed == [sr EXCEPT !.scanStatistics.scanDuration = SumDurations(sr.scanPhases)]
        covered == IF stats.totalFiles > 0
                   THEN [timed EXCEPT !.scanStatistics.coverage =
                            [num |-> stats.scannedFiles, den |-> stats.totalFiles]]
                   ELSE timed
    IN generateRecommendations(covered)

\* handleError: the error it throws.  It emits the 'error' event first.
handleError(error, phase, rootPath, listening) ==
    IF emitErrorEvent(listening) # NoError THEN emitErrorEvent(listening)
    ELSE IF error.name = "ScanError" THEN error
    ELSE ScanError("Scan failed", "SCAN_ERROR", rootPath, phase)

(***************************************************************************)
(* QuickScanner.                                                           *)
(***************************************************************************)
\* traverseDirectory is a function declaration: `this` is the scanner only in
\* the outer call, made with .call(this, ...); the recursive call is a plain
\* call, so below the root this.shouldStopScan raises a TypeError.  An
\* exception raised inside the try, also by the recursive call, is absorbed by
\* the catch and ends the loop over the entries; the files pushed so far stay.
\* Result: the files pushed and the error that escapes ("" when none does).
RECURSIVE traverseDirectory(_, _, _, _, _, _)
RECURSIVE traverseEntries(_, _, _, _, _, _)

\* The loop body on a directory entry, once the recursive call has ended.
afterRecursiveCall(self, stop, proj, entriesOf, rest, depth, sub) ==
    IF sub.raised # "" THEN sub.files
    ELSE sub.files \cup traverseEntries(self, stop, proj, entriesOf, rest, depth)

traverseEntries(self, stop, proj, entriesOf, entries, depth) ==
    IF entries = <<>> THEN {}
    ELSE IF stop # "" THEN {}
    ELSE IF StartsWithDot(Last(Head(entries))) /\ Front(Head(entries)) # Root
    THEN traverseEntries(self, stop, proj, entriesOf, Tail(entries), depth)
    ELSE IF Head(entries) \in proj.dirs
    THEN afterRecursiveCall(self, stop, proj, entriesOf, Tail(entries), depth,
             traverseDirectory(PlainCallThis, stop, proj, entriesOf, Head(entries), depth + 1))
    ELSE {Head(entries)} \cup traverseEntries(self, stop, proj, entriesOf, Tail(entries), depth)

\* stop is what shouldStopScan does at every checkpoint of this traversal: the
\* statistics it reads do not change before updateStatistics.
traverseDirectory(self, stop, proj, entriesOf, currentPath, depth) ==
    IF depth > entriesOf.maxDepth THEN [files |-> {}, raised |-> ""]
    ELSE IF self = Undefined THEN [files |-> {}, raised |-> "TypeError"]
    ELSE IF stop # "" THEN [files |-> {}, raised |-> stop]
    ELSE IF currentPath \in proj.unreadable THEN [files |-> {}, raised |-> ""]
    ELSE [files |-> traverseEntries(self, stop, proj, entriesOf, entriesOf.list[currentPath], depth),
          raised |-> ""]

\* rootOrder is the order in which readdir lists the root.
quickTraverseDirectory(limits, stats, proj, rootOrder) ==
    traverseDirectory("scanner", shouldStopScan(limits, stats), proj,
        [maxDepth |-> limits.maxDepth,
         list |-> [d \in proj.dirs \cup {Root} |->
                      IF d = Root THEN rootOrder ELSE SeqOf(Entries(proj, d))]],
        Root, 0)

moduleIndicators ==
    { "package.json", "go.mod", "pyproject.toml", "setup.py", "Cargo.toml", "pom.xml",
      "build.gradle", "csproj", "sln" }

commonModuleDirs == { "packages", "libs", "modules", "apps", "services", "components" }

findSubdirectories(proj, dirPath) ==
    IF dirPath \in proj.unreadable THEN {}
    ELSE { p \in proj.dirs : Front(p) = dirPath /\ ~StartsWithDot(Last(p)) }

\* The callback of subDirs.forEach awaits isModuleRoot, and forEach does not wait
\* for its callbacks: probed says whether the additions are made before
\* Array.from(modulePaths) is taken.
quickIdentifyModules(detectors, files, proj, probed) ==
    LET byIndicator == { Front(f) : f \in { g \in files : Last(g) \in moduleIndicators } }
        containers == { <<name>> : name \in commonModuleDirs } \cap proj.dirs
        byContainer == { subDir \in UNION { findSubdirectories(proj, c) : c \in containers } :
                            isModuleRoot(detectors, ProjListing(proj, subDir)) }
    IN byIndicator \cup (IF probed THEN byContainer ELSE {})

extractModuleName(proj, modulePath) ==
    IF modulePath = Root THEN proj.name ELSE Last(modulePath)

\* quickAnalyzeModule: the ModuleInfo, or the ScanError it throws.
quickAnalyzeModule(detectors, proj, modulePath, projectType) ==
    LET detector == getDetector(detectors, projectType)
    IN IF detector = Undefined
       THEN [error |-> "DETECTOR_NOT_FOUND"]
       ELSE IF ~DetectorDetect(detector, ProjListing(proj, modulePath))
       THEN [error |-> "MODULE_TYPE_MISMATCH"]
       ELSE [error |-> "", path |-> modulePath, name |-> extractModuleName(proj, modulePath),
             type |-> projectType, docs |-> <<>>]

\* One round of the loop of quickAnalyzeModules: the ModuleInfos it adds.
analyzedModule(info) ==
    IF info.error # "" THEN <<>>
    ELSE << [path |-> info.path, name |-> info.name, type |-> info.type, docs |-> info.docs] >>

analyzeDetected_keepUnknown(detectors, proj, modulePath, projectType) ==
    << [path |-> modulePath, name |-> extractModuleName(proj, modulePath),
        type |-> projectType, docs |-> <<>>] >>

analyzeDetected(detectors, proj, modulePath, projectType) ==
    IF projectType = UNKNOWN THEN <<>>
    ELSE analyzedModule(quickAnalyzeModule(detectors, proj, modulePath, projectType))

analyzeOne(detectors, stop, proj, modulePath) ==
    IF stop # "" THEN <<>>
    ELSE analyzeDetected(detectors, proj, modulePath,
             detectProjectType(detectors, ProjListing(proj, modulePath)))

RECURSIVE quickAnalyzeModules(_, _, _, _)
quickAnalyzeModules(detectors, stop, proj, modulePaths) ==
    IF modulePaths = <<>> THEN <<>>
    ELSE analyzeOne(detectors, stop, proj, Head(modulePaths))
             \o quickAnalyzeModules(detectors, stop, proj, Tail(modulePaths))

updateStatistics(sr, allFiles, filteredFiles, modules) ==
    LET total == Cardinality(allFiles)
        scanned == Cardinality(filteredFiles)
    IN [sr EXCEPT
           !.scanStatistics.totalFiles = total,
           !.scanStatistics.scannedFiles = scanned,
           !.scanStatistics.ignoredFiles = total - scanned,
           !.scanStatistics.modulesFound = Len(modules),
           !.scanStatistics.coverage =
               IF total > 0 THEN [num |-> scanned, den |-> total] ELSE @]

\* Checks chained with else: the first one that holds suppresses the others.
generateQuickRecommendations_chain(sr) ==
    [sr EXCEPT !.recommendations =
        IF sr.scanStatistics.modulesFound = 0
        THEN << [type |-> "scan_deeper", priority |-> "high"] >>
        ELSE IF CoverageBelow(sr.scanStatistics.coverage, 30)
        THEN << [type |-> "scan_deeper", priority |-> "medium"] >>
        ELSE IF sr.projectType = UNKNOWN
        THEN << [type |-> "add_config", priority |-> "medium"] >>
        ELSE << [type |-> "scan_deeper", priority |-> "low"] >>]

generateQuickRecommendations(sr) ==
    LET stats == sr.scanStatistics
        r1 == IF stats.modulesFound = 0
              THEN << [type |-> "scan_deeper", priority |-> "high"] >> ELSE <<>>
        r2 == IF CoverageBelow(stats.coverage, 30)
              THEN << [type |-> "scan_deeper", priority |-> "medium"] >> ELSE <<>>
        r3 == IF sr.projectType = UNKNOWN
              THEN << [type |-> "add_config", priority |-> "medium"] >> ELSE <<>>
        r4 == IF stats.modulesFound > 0
              THEN << [type |-> "scan_deeper", priority |-> "low"] >> ELSE <<>>
    IN [sr EXCEPT !.recommendations = r1 \o r2 \o r3 \o r4]

\* performQuickScan: the accumulator, the filter and the phase record afterwards,
\* the error thrown (NoError when it returns), and for the history the number of
\* files the traversal enumerated and the error shouldStopScan raised.
quickDone(done, ff, record, trav) ==
    [scanResult |-> done, fileFilter |-> ff,
     record |-> [record EXCEPT !.filesProcessed = done.scanStatistics.totalFiles],
     error |-> NoError,
     enumerated |-> Cardinality(trav.files), limitRaised |-> ""]

\* Steps 6 to 8: the modules are stored, the statistics updated, the recommendations set.
quickSteps6to8(sr, record, trav, filtered, projectType, moduleInfos) ==
    quickDone(
        generateQuickRecommendations(
            updateStatistics([sr EXCEPT !.projectType = projectType, !.modules = moduleInfos],
                             trav.files, filtered.files, moduleInfos)),
        filtered.ff, record, trav)

\* Steps 4 to 6 on the filtered files.
quickSteps4to6(sr, limits, detectors, proj, probed, record, trav, filtered) ==
    quickSteps6to8(sr, record, trav, filtered,
        detectProjectType(detectors, ProjListing(proj, Root)),
        quickAnalyzeModules(detectors, shouldStopScan(limits, sr.scanStatistics), proj,
            SeqOf(quickIdentifyModules(detectors, filtered.files, proj, probed))))

\* Step 3, or the catch when the traversal threw.
quickStep3(sr, ff1, limits, detectors, proj, probed, record, trav) ==
    IF trav.raised # ""
    THEN [scanResult |-> sr, fileFilter |-> ff1, record |-> record,
          error |-> ScanError("quick scan failed", "QUICK_SCAN_FAILED", proj.name, "quick"),
          enumerated |-> Cardinality(trav.files), limitRaised |-> trav.raised]
    ELSE quickSteps4to6(sr, limits, detectors, proj, probed, record, trav,
             filterFiles(ff1, trav.files, proj.broken))

performQuickScan(sr, ff, limits, detectors, proj, rootOrder, probed, record) ==
    quickStep3(sr, loadGitignore(ff, proj.gitignore), limits, detectors, proj, probed, record,
        quickTraverseDirectory(limits, sr.scanStatistics, proj, rootOrder))

\* performModuleScan and performDeepScan of QuickScanner only throw.
performUnsupported(sr, ff, proj, phase, record) ==
    [scanResult |-> sr, fileFilter |-> ff, record |-> record,
     error |-> ScanError("QuickScanner does not support this phase", "UNSUPPORTED_PHASE", proj.name, phase),
     enumerated |-> 0, limitRaised |-> ""]

\* scanPhase: the record is created running and is completed or failed once the
\* phase body has returned or thrown; duration is endTime - startTime.
runningRecord(phase, startTime) ==
    [phase |-> phase, startTime |-> startTime, endTime |-> startTime, duration |-> 0,
     filesProcessed |-> 0, status |-> "running", error |-> ""]

phaseBody(phase, sr, ff, limits, detectors, proj, rootOrder, probed, record) ==
    CASE phase = "quick" ->
            performQuickScan(sr, ff, limits, detectors, proj, rootOrder, probed, record)
      [] phase \in {"module", "deep"} ->
            performUnsupported(sr, ff, proj, phase, record)
      [] OTHER ->
            [scanResult |-> sr, fileFilter |-> ff, record |-> record,
             error |-> ScanError("Unknown scan phase", "UNKNOWN_PHASE", proj.name, phase),
             enumerated |-> 0, limitRaised |-> ""]

\* A scanPhase that stamps the end of the phase but leaves the duration as created.
endRecord_keepDuration(body, endTime, listening) ==
    IF body.error = NoError
    THEN [body EXCEPT !.record = [@ EXCEPT !.status = "completed", !.endTime = endTime]]
    ELSE [body EXCEPT !.record = [@ EXCEPT !.status = "failed", !.error = body.error.message,
                                            !.endTime = endTime],
                      !.error = IF emitErrorEvent(listening) # NoError
                                THEN emitErrorEvent(listening) ELSE @]

\* The catch of scanPhase emits the 'error' event before it rethrows.
endRecord(body, endTime, listening) ==
    IF body.error = NoError
    THEN [body EXCEPT !.record = [@ EXCEPT !.status = "completed", !.endTime = endTime,
                                            !.duration = endTime - body.record.startTime]]
    ELSE [body EXCEPT !.record = [@ EXCEPT !.status = "failed", !.error = body.error.message,
                                            !.endTime = endTime,
                                            !.duration = endTime - body.record.startTime],
                      !.error = IF emitErrorEvent(listening) # NoError
                                THEN emitErrorEvent(listening) ELSE @]

\* startTime and endTime are what new Date() gives before and after the phase body.
scanPhase(phase, sr, ff, limits, detectors, proj, rootOrder, probed, t0, t1, listening) ==
    endRecord(phaseBody(phase, sr, ff, limits, detectors, proj, rootOrder, probed,
                        runningRecord(phase, t0)),
              t1, listening)

\* A loop that logs the failure of a phase and goes on with the next phase.
scanLoopBody_continue(sc, outcome, listening) ==
    IF outcome.error = NoError
    THEN [scan |-> [sc EXCEPT !.left = Tail(@)],
          scanResult |-> [outcome.scanResult EXCEPT !.scanPhases = Append(@, outcome.record)]]
    ELSE [scan |-> [sc EXCEPT !.left = Tail(@)], scanResult |-> outcome.scanResult]

\* A loop that stores the record of a failed phase in the result before handling the error.
scanLoopBody_storeFailed(sc, outcome, listening) ==
    IF handleError(outcome.error, Head(sc.left), outcome.scanResult.rootPath, listening) # NoError
       /\ outcome.error # NoError
    THEN [scan |-> [sc EXCEPT !.pc = "thrown", !.left = <<>>,
                              !.error = handleError(outcome.error, Head(sc.left),
                                                    outcome.scanResult.rootPath, listening)],
          scanResult |-> [outcome.scanResult EXCEPT !.scanPhases = Append(@, outcome.record)]]
    ELSE [scan |-> [sc EXCEPT !.left = Tail(@)],
          scanResult |-> [outcome.scanResult EXCEPT !.scanPhases = Append(@, outcome.record)]]

\* The catch of the for loop: handleError throws out of scan; the break after it
\* is reached only if handleError returns.
afterHandleError(sc, outcome, thrown) ==
    IF thrown # NoError
    THEN [scan |-> [sc EXCEPT !.pc = "thrown", !.error = thrown, !.left = <<>>],
          scanResult |-> outcome.scanResult]
    ELSE [scan |-> [sc EXCEPT !.left = <<>>], scanResult |-> outcome.scanResult]

\* The body of the for loop of scan, after scanPhase has returned or thrown.
scanLoopBody(sc, outcome, listening) ==
    IF outcome.error = NoError
    THEN [scan |-> [sc EXCEPT !.left = Tail(@)],
          scanResult |-> [outcome.scanResult EXCEPT !.scanPhases = Append(@, outcome.record)]]
    ELSE afterHandleError(sc, outcome,
             handleError(outcome.error, Head(sc.left), outcome.scanResult.rootPath, listening))

(***************************************************************************)
(* ZcfInitProject.scanOnly: the scan of the command-line entry point, on   *)
(* its own DetectorManager and FileFilterSystem.                           *)
(***************************************************************************)
DefaultScanDepth == 5

\* The nested traverseDirectory of scanFiles does not use `this`; the catch around
\* readdir leaves out an unreadable directory and what lies below it.
RECURSIVE scanFilesBelow(_, _, _, _)
scanFilesBelow(proj, maxDepth, currentPath, depth) ==
    IF depth > maxDepth \/ currentPath \in proj.unreadable THEN {}
    ELSE LET visible == { e \in Entries(proj, currentPath) :
                             ~(StartsWithDot(Last(e)) /\ currentPath # Root) }
         IN (visible \ proj.dirs)
                \cup UNION { scanFilesBelow(proj, maxDepth, e, depth + 1) :
                                e \in visible \cap proj.dirs }

scanFiles(proj, maxDepth) == scanFilesBelow(proj, maxDepth, Root, 0)

\* identifyModules: one candidate per indicator file; a candidate of unknown type is
\* left out.  The modules are given as a set, the order of the array is that of the
\* enumeration.
identifyModules(detectors, files, proj) ==
    LET indicators == { f \in files :
                           Last(f) \in {"package.json", "go.mod", "pyproject.toml", "Cargo.toml"} }
    IN { [name |-> IF Front(f) = Root THEN proj.name ELSE Last(Front(f)),
          path |-> Front(f),
          type |-> detectProjectType(detectors, ProjListing(proj, Front(f)))] :
            f \in { g \in indicators :
                       detectProjectType(detectors, ProjListing(proj, Front(g))) # UNKNOWN } }

zcfRecommendations(modules, allFiles, filteredFiles, projectType) ==
    (IF modules = {} THEN << [type |-> "scan_deeper", priority |-> "high"] >> ELSE <<>>)
        \o (IF 2 * Cardinality(filteredFiles) < Cardinality(allFiles) \/ allFiles = {}
            THEN << [type |-> "scan_deeper", priority |-> "medium"] >> ELSE <<>>)
        \o (IF projectType = UNKNOWN
            THEN << [type |-> "add_config", priority |-> "medium"] >> ELSE <<>>)

\* The ScanResult built from the outcome of the steps; no step of the try block throws.
scanOnlyResult(projectType, allFiles, filtered, modules) ==
    [thrown |-> NoError,
     fileFilter |-> filtered.ff,
     result |-> [modules |-> modules,
                 statistics |-> [totalFiles |-> Cardinality(allFiles),
                                 scannedFiles |-> Cardinality(filtered.files),
                                 modulesFound |-> Cardinality(modules)],
                 recommendations |->
                     zcfRecommendations(modules, allFiles, filtered.files, projectType)]]

scanOnlyFiltered(detectors, proj, allFiles, filtered) ==
    scanOnlyResult(detectProjectType(detectors, ProjListing(proj, Root)), allFiles, filtered,
                   identifyModules(detectors, filtered.files, proj))

scanOnlyEnumerated(ff1, detectors, proj, allFiles) ==
    scanOnlyFiltered(detectors, proj, allFiles, filterFiles(ff1, allFiles, proj.broken))

\* A scanOnly that gives up on the first directory it cannot read or file it cannot stat.
scanOnly_strict(ff, detectors, proj, maxDepth) ==
    IF proj.unreadable # {} \/ proj.broken # {}
    THEN [thrown |-> ScanError("scan failed", "SCAN_FAILED", proj.name, ""),
          fileFilter |-> loadGitignore(ff, proj.gitignore),
          result |-> [modules |-> {},
                      statistics |-> [totalFiles |-> 0, scannedFiles |-> 0, modulesFound |-> 0],
                      recommendations |-> <<>>]]
    ELSE scanOnlyEnumerated(loadGitignore(ff, proj.gitignore), detectors, proj,
             scanFiles(proj, IF maxDepth = 0 THEN DefaultScanDepth ELSE maxDepth))

\* scanOnly(projectPath, {maxDepth}); options.maxDepth || 5 takes 5 for 0 and for none.
scanOnly(ff, detectors, proj, maxDepth) ==
    scanOnlyEnumerated(loadGitignore(ff, proj.gitignore), detectors, proj,
        scanFiles(proj, IF maxDepth = 0 THEN DefaultScanDepth ELSE maxDepth))

(***************************************************************************)
(* Inputs of the filter operations.                                        *)
(***************************************************************************)
RelPaths == { <<"src", "a.ts">>, <<"debug.log">>, <<"lib.zip">>, <<"notes">> }

FilterBatches ==
    { <<>>,
      << [pattern |-> "notes", action |-> "exclude", priority |-> 1] >>,
      << [pattern |-> "src/**", action |-> "exclude", priority |-> 3],
         [pattern |-> "*", action |-> "include", priority |-> 12] >>,
      << [pattern |-> "src/**", action |-> "include", priority |-> 11] >> }

IgnoreBatches ==
    { <<>>,
      << [pattern |-> "src/**", priority |-> 7] >>,
      << [pattern |-> "notes", priority |-> 1], [pattern |-> "[", priority |-> 9] >> }

GitignoreContents ==
    { NoGitignore,
      [readable |-> TRUE, lines |-> <<>>],
      [readable |-> TRUE, lines |-> << "# build", "", "src/**" >>],
      [readable |-> TRUE, lines |-> << " notes " >>] }

FilterConfigs ==
    { [filters |-> <<>>, ignoreRules |-> <<>>],
      [filters |-> << [pattern |-> "notes", action |-> "exclude", priority |-> 1] >>,
       ignoreRules |-> <<>>],
      [filters |-> << [pattern |-> "src/**", action |-> "include", priority |-> 11] >>,
       ignoreRules |-> << [pattern |-> "src/**", priority |-> 7] >>],
      [filters |-> << [pattern |-> "src/**", action |-> "exclude", priority |-> 3],
                      [pattern |-> "*", action |-> "include", priority |-> 12] >>,
       ignoreRules |-> << [pattern |-> "notes", priority |-> 1], [pattern |-> "[", priority |-> 9] >>] }

\* The paths fs.stat may fail on (a dangling link, a file removed meanwhile).
MayBeBroken == { <<"notes">> }

StatOutcomes(path) == IF path \in MayBeBroken THEN BOOLEAN ELSE {TRUE}

FiltersFit(ff, filters) ==
    Len(ff.includeFilters) + Len(ff.excludeFilters) + Len(filters) <= MaxFilters

RulesFit(ff, rules) == Len(ff.ignoreRules) + Len(rules) <= MaxIgnoreRules

(***************************************************************************)
(* Actions on a FileFilterSystem.                                          *)
(***************************************************************************)
KeptStat == [p \in DOMAIN fileFilter'.ignoreCache |-> cacheStat[p]]

AddFilters ==
    \E filters \in FilterBatches :
        /\ FiltersFit(fileFilter, filters)
        /\ fileFilter' = addFilters(fileFilter, filters)
        /\ cacheStat' = KeptStat
        /\ lastCall' = NoCall

AddIgnoreRules ==
    \E rules \in IgnoreBatches :
        /\ RulesFit(fileFilter, rules)
        /\ fileFilter' = addIgnoreRules(fileFilter, rules)
        /\ cacheStat' = KeptStat
        /\ lastCall' = NoCall

LoadGitignore ==
    \E content \in GitignoreContents :
        /\ RulesFit(fileFilter, gitignoreRules(content.lines))
        /\ fileFilter' = loadGitignore(fileFilter, content)
        /\ cacheStat' = KeptStat
        /\ lastCall' = NoCall

Reset ==
    /\ fileFilter' = reset(fileFilter)
    /\ cacheStat' = KeptStat
    /\ lastCall' = NoCall

ImportConfig ==
    \E cfg \in FilterConfigs :
        /\ FiltersFit(initializeDefaults, cfg.filters)
        /\ RulesFit(initializeDefaults, cfg.ignoreRules)
        /\ fileFilter' = importConfig(fileFilter, cfg)
        /\ cacheStat' = KeptStat
        /\ lastCall' = NoCall

\* statOk: whether fs.stat succeeds on the path now.
ShouldInclude ==
    \E path \in RelPaths :
      \E statOk \in StatOutcomes(path) :
        LET r == shouldInclude(fileFilter, path, statOk)
            st == IF r.cached THEN cacheStat[path] ELSE statOk
        IN /\ fileFilter' = r.ff
           /\ cacheStat' = (path :> st) @@ cacheStat
           /\ lastCall' = [called |-> TRUE, path |-> path, result |-> r.result,
                           statOk |-> st, cached |-> r.cached]

(***************************************************************************)
(* Module discovery on a tree.                                             *)
(***************************************************************************)
FindModules ==
    \E maxDepth \in 0..MaxDepthArg :
        /\ found = NoCall
        /\ found' = [called |-> TRUE, maxDepth |-> maxDepth,
                     modules |-> findModules(initializeDetectors, tree, maxDepth)]
        /\ UNCHANGED tree

(***************************************************************************)
(* Scans on one QuickScanner.                                              *)
(***************************************************************************)
DefaultPhases == << "quick", "module", "deep" >>

PhaseOptions ==
    { [given |-> FALSE, list |-> <<>>],
      [given |-> TRUE, list |-> <<>>],
      [given |-> TRUE, list |-> << "quick" >>],
      [given |-> TRUE, list |-> << "quick", "bogus" >>] }

NoProject ==
    [name |-> "", files |-> {}, dirs |-> {}, broken |-> {}, unreadable |-> {},
     gitignore |-> NoGitignore]

IdleScan ==
    [pc |-> "idle", project |-> NoProject, phases |-> <<>>, left |-> <<>>, started |-> <<>>,
     error |-> NoError, finalized |-> FALSE, enumerated |-> <<>>, limitRaised |-> ""]

\* scan(path, options), up to the for loop.
ScanStart ==
    \E proj \in Projects, options \in PhaseOptions :
        /\ scan.pc \in {"idle", "returned", "thrown"}
        /\ scans < MaxScans
        /\ scans' = scans + 1
        /\ scanResult' = [scanResult EXCEPT !.rootPath = proj.name]
        /\ scan' = [IdleScan EXCEPT
                       !.pc = "loop",
                       !.project = proj,
                       !.phases = IF options.given THEN options.list ELSE DefaultPhases,
                       !.left = IF options.given THEN options.list ELSE DefaultPhases]
        /\ UNCHANGED <<config, currentPhase, fileFilter, errorListener>>

\* One round of the for loop: scanPhase on the next phase, then the loop body.
\* Durations are the milliseconds a phase may take: every phase takes one tick of
\* the model clock.
Durations == {1}

RootOrders(proj) ==
    IF Entries(proj, Root) \cap proj.dirs = {} THEN { SeqOf(Entries(proj, Root)) }
    ELSE Perms(Entries(proj, Root))

LoopEffect(outcome, after) ==
    /\ fileFilter' = outcome.fileFilter
    /\ scanResult' = after.scanResult
    /\ scan' = [after.scan EXCEPT
                   !.started = Append(scan.started, outcome.record),
                   !.enumerated = Append(scan.enumerated, outcome.enumerated),
                   !.limitRaised = IF outcome.limitRaised # "" THEN outcome.limitRaised ELSE @]

PhaseEffect(outcome) == LoopEffect(outcome, scanLoopBody(scan, outcome, errorListener))

\* The clock of the model: the milliseconds since scan was called; time passes only
\* while a phase runs.
Now == SumDurations(scan.started)

ScanPhaseStep ==
    \E rootOrder \in RootOrders(scan.project), probed \in BOOLEAN, duration \in Durations :
        /\ scan.pc = "loop"
        /\ scan.left # <<>>
        /\ currentPhase' = Head(scan.left)
        /\ PhaseEffect(scanPhase(Head(scan.left), scanResult, fileFilter, config,
                                 initializeDetectors, scan.project, rootOrder, probed,
                                 Now, Now + duration, errorListener))
        /\ UNCHANGED <<config, scans, errorListener>>

\* After the loop: finalizeScan, and the accumulator is returned.
ScanFinish ==
    /\ scan.pc = "loop"
    /\ scan.left = <<>>
    /\ scanResult' = finalizeScan(scanResult)
    /\ scan' = [scan EXCEPT !.pc = "returned", !.finalized = TRUE]
    /\ UNCHANGED <<config, currentPhase, scans, fileFilter, errorListener>>

\* scanner.on('error', listener), the EventEmitter method BaseScanner inherits.
OnError ==
    /\ ~errorListener
    /\ errorListener' = TRUE
    /\ UNCHANGED <<config, scanResult, currentPhase, scan, scans, fileFilter>>

(***************************************************************************)
(* ZcfInitProject.scanOnly on the trees of the scanner and on one with a    *)
(* directory that cannot be read and a manifest no detector recognises.    *)
(***************************************************************************)
ZcfProjects ==
    Projects \cup
    { [name |-> "crate",
       files |-> { <<"Cargo.toml">>, <<"svc", "go.mod">>, <<"locked", "package.json">> },
       dirs |-> { <<"svc">>, <<"locked">> },
       broken |-> {}, unreadable |-> { <<"locked">> }, gitignore |-> NoGitignore] }

\* The maxDepth option of scanOnly; 0 stands for an option left out.
ScanDepths == { 0, 1 }

ScanOnly ==
    \E proj \in ZcfProjects, maxDepth \in ScanDepths :
        /\ proj.gitignore.readable => RulesFit(fileFilter, gitignoreRules(proj.gitignore.lines))
        /\ fileFilter' = scanOnly(fileFilter, initializeDetectors, proj, maxDepth).fileFilter
        /\ scanOnlyCall' =
               [called |-> TRUE, project |-> proj, maxDepth |-> maxDepth,
                thrown |-> scanOnly(fileFilter, initializeDetectors, proj, maxDepth).thrown,
                result |-> scanOnly(fileFilter, initializeDetectors, proj, maxDepth).result]

(***************************************************************************)
(* A DetectorManager used directly: directories to classify, and the       *)
(* registrations a caller makes.                                           *)
(***************************************************************************)
ManagerDir(base, files, gomod, invalidJson) ==
    [base |-> base, files |-> files, readable |-> TRUE, gomod |-> gomod,
     invalidJson |-> invalidJson]

ManagerDirs ==
    { ManagerDir("project", {"go.mod", "main.go"},
          TextFile(<< <<"module", "example.com/foo">>, <<>>, <<"go", "1.21">> >>), FALSE),
      ManagerDir("svc", {"go.mod", "go.sum", "main.go", "README.md"},
          TextFile(<< <<"go", "1.22">>, <<"module", "example.com/bar">>, <<"require", "(">>,
                      <<"a", "v1">>, <<")">>, <<"require", "b", "v2">>,
                      <<"replace", "a", "=>", "c", "v3">> >>), FALSE),
      ManagerDir("bare", {"main.go"}, NoFile, FALSE),
      ManagerDir("nomodule", {"go.mod", "main.go"}, TextFile(<< <<"go", "1.21">> >>), FALSE),
      ManagerDir("polyglot", {"Cargo.toml", "pyproject.toml", "go.mod"},
          TextFile(<< <<"module", "m">> >>), FALSE),
      ManagerDir("web", {"package.json", "tsconfig.json"}, NoFile, FALSE),
      ManagerDir("badjson", {"package.json"}, NoFile, TRUE),
      ManagerDir("plain", {"notes"}, NoFile, FALSE) }

Registrations ==
    { [type |-> "rust", detector |-> "Rust"],
      [type |-> "go", detector |-> "Rust"],
      [type |-> "go", detector |-> "Go"],
      [type |-> "python", detector |-> "Python"] }

UnregisteredTypes == { "javascript", "python", "go", "rust" }

\* The optional projectType argument of analyzeModule; java has no detector.
GivenTypes == { Undefined, "javascript", "python", "go", "rust", "java", UNKNOWN }

RegisterDetector ==
    \E e \in Registrations :
        /\ registry' = registerDetector(registry, e.type, e.detector)
        /\ managerCall' = NoCall

UnregisterDetector ==
    \E type \in UnregisteredTypes :
        /\ registry' = unregisterDetector(registry, type)
        /\ managerCall' = NoCall

DetectProjectType ==
    \E dir \in ManagerDirs :
        /\ managerCall' = [called |-> TRUE, op |-> "detectProjectType", dir |-> dir,
                           given |-> Undefined,
                           type |-> detectProjectType(registry, dir),
                           result |-> Pending]
        /\ UNCHANGED registry

AnalyzeModule ==
    \E dir \in ManagerDirs, projectType \in GivenTypes :
        /\ managerCall' = [called |-> TRUE, op |-> "analyzeModule", dir |-> dir,
                           given |-> projectType,
                           type |-> IF projectType = Undefined
                                    THEN detectProjectType(registry, dir) ELSE projectType,
                           result |-> analyzeModule(registry, dir, projectType)]
        /\ UNCHANGED registry

(***************************************************************************)
(* Specifications.                                                         *)
(***************************************************************************)
FilterObjectInit ==
    /\ cacheStat = <<>>
    /\ lastCall = NoCall

ScannerIdle ==
    /\ config = ScannerConfig(createDefault(DefaultMaxFiles))
    /\ scanResult = initializeScanResult
    /\ currentPhase = ""
    /\ scan = IdleScan
    /\ scans = 0
    /\ errorListener = FALSE

ManagerIdle ==
    /\ registry = initializeDetectors
    /\ managerCall = NoCall
    /\ scanOnlyCall = NoCall

\* A FileFilterSystem on its own, as ZcfInitProject constructs it.
FilterInit ==
    /\ fileFilter = NewFileFilterSystem(NoFilterConfig)
    /\ FilterObjectInit
    /\ tree = EmptyTree
    /\ found = NoCall
    /\ ScannerIdle
    /\ ManagerIdle

FilterNext ==
    \/ AddFilters /\ UNCHANGED moduleVars /\ UNCHANGED scanVars /\ UNCHANGED entryVars
    \/ AddIgnoreRules /\ UNCHANGED moduleVars /\ UNCHANGED scanVars /\ UNCHANGED entryVars
    \/ LoadGitignore /\ UNCHANGED moduleVars /\ UNCHANGED scanVars /\ UNCHANGED entryVars
    \/ Reset /\ UNCHANGED moduleVars /\ UNCHANGED scanVars /\ UNCHANGED entryVars
    \/ ImportConfig /\ UNCHANGED moduleVars /\ UNCHANGED scanVars /\ UNCHANGED entryVars
    \/ ShouldInclude /\ UNCHANGED moduleVars /\ UNCHANGED scanVars /\ UNCHANGED entryVars

FilterSpec == FilterInit /\ [][FilterNext]_vars

\* A DetectorManager with its built-in detectors, on some tree.
ModulesInit ==
    /\ fileFilter = NewFileFilterSystem(NoFilterConfig)
    /\ FilterObjectInit
    /\ tree \in Trees
    /\ found = NoCall
    /\ ScannerIdle
    /\ ManagerIdle

ModulesNext ==
    FindModules /\ UNCHANGED filterVars /\ UNCHANGED scanVars /\ UNCHANGED entryVars

ModulesSpec == ModulesInit /\ [][ModulesNext]_vars

\* A QuickScanner built on createDefault({performanceLimits: {maxFiles}}).
MaxFilesOptions == { 2, DefaultMaxFiles }

\* The options of createDefault the caller builds the scanner's ScanConfig with: a
\* lower maxFiles, a memoryLimit of one byte, or a custom filter excluding package.json.
ConfigOptions ==
    { [maxFiles |-> n, memoryLimit |-> DefaultMemoryLimit, hasCustom |-> FALSE,
       customFilters |-> <<>>] : n \in MaxFilesOptions }
    \cup { [maxFiles |-> DefaultMaxFiles, memoryLimit |-> 1, hasCustom |-> FALSE,
            customFilters |-> <<>>],
           [maxFiles |-> DefaultMaxFiles, memoryLimit |-> DefaultMemoryLimit, hasCustom |-> TRUE,
            customFilters |-> << [pattern |-> "**/package.json", action |-> "exclude",
                                  priority |-> 5] >>] }

Init ==
    \E options \in ConfigOptions :
        /\ config = ScannerConfig(createCustom(options))
        /\ fileFilter = QuickScannerFileFilter(createCustom(options))
        /\ FilterObjectInit
        /\ tree = EmptyTree
        /\ found = NoCall
        /\ scanResult = initializeScanResult
        /\ currentPhase = ""
        /\ scan = IdleScan
        /\ scans = 0
        /\ errorListener = FALSE
        /\ ManagerIdle

Next ==
    \/ ScanStart /\ UNCHANGED <<cacheStat, lastCall>> /\ UNCHANGED moduleVars /\ UNCHANGED entryVars
    \/ ScanPhaseStep /\ UNCHANGED <<cacheStat, lastCall>> /\ UNCHANGED moduleVars /\ UNCHANGED entryVars
    \/ ScanFinish /\ UNCHANGED <<cacheStat, lastCall>> /\ UNCHANGED moduleVars /\ UNCHANGED entryVars
    \/ OnError /\ UNCHANGED <<cacheStat, lastCall>> /\ UNCHANGED moduleVars /\ UNCHANGED entryVars

Spec == Init /\ [][Next]_vars

\* A DetectorManager whose registry the caller changes between calls.
ManagerInit ==
    /\ fileFilter = NewFileFilterSystem(NoFilterConfig)
    /\ FilterObjectInit
    /\ tree = EmptyTree
    /\ found = NoCall
    /\ ScannerIdle
    /\ ManagerIdle

ManagerNext ==
    \/ RegisterDetector /\ UNCHANGED <<filterVars, moduleVars, scanVars, scanOnlyCall>>
    \/ UnregisterDetector /\ UNCHANGED <<filterVars, moduleVars, scanVars, scanOnlyCall>>
    \/ DetectProjectType /\ UNCHANGED <<filterVars, moduleVars, scanVars, scanOnlyCall>>
    \/ AnalyzeModule /\ UNCHANGED <<filterVars, moduleVars, scanVars, scanOnlyCall>>

ManagerSpec == ManagerInit /\ [][ManagerNext]_vars

\* A ZcfInitProject: new DetectorManager(), new FileFilterSystem().
InitProjectInit ==
    /\ fileFilter = NewFileFilterSystem(NoFilterConfig)
    /\ FilterObjectInit
    /\ tree = EmptyTree
    /\ found = NoCall
    /\ ScannerIdle
    /\ ManagerIdle

InitProjectNext ==
    ScanOnly /\ UNCHANGED <<cacheStat, lastCall, moduleVars, scanVars, managerVars>>

InitProjectSpec == InitProjectInit /\ [][InitProjectNext]_vars


(***************************************************************************)
(* Properties of the phased scan (specification Spec).                     *)
(***************************************************************************)
Started == 1..Len(scan.started)

ScanEnded == scan.pc \in {"returned", "thrown"}

\* C1: the phases started by a scan invocation are, in order, the first of the
\* phases the caller asked for, and every started phase but the last has
\* completed: after a failed phase no later phase of the invocation is started.
C1_FailFast ==
    /\ Len(scan.started) <= Len(scan.phases)
    /\ \A i \in Started : scan.started[i].phase = scan.phases[i]
    /\ \A i \in Started : i < Len(scan.started) => scan.started[i].status = "completed"
    /\ \A i \in Started : scan.started[i].status = "failed" => scan.left = <<>>

\* A scan of quick, module, deep: quick completed, module failed, deep was never started.
C1_Witness ==
    /\ scan.pc = "thrown"
    /\ scan.phases = DefaultPhases
    /\ Len(scan.started) = 2
    /\ scan.started[1].status = "completed"
    /\ scan.started[2].status = "failed"

\* C2: a Quick phase that enumerated at least maxFiles files has failed, its
\* record has status failed with a non-empty error, and no phase was started after it.
C2_FileLimitFailsPhase ==
    \A i \in Started :
        (scan.started[i].phase = "quick" /\ scan.enumerated[i] >= config.maxFiles)
            => /\ scan.started[i].status = "failed"
               /\ scan.started[i].error # ""
               /\ i = Len(scan.started)

\* C3: when shouldStopScan has thrown a resource-limit error during a scan, the
\* scan has thrown and the error its caller gets is that resource-limit error.
C3_LimitErrorReachesCaller ==
    scan.limitRaised # ""
        => /\ scan.pc = "thrown"
           /\ scan.error.code = scan.limitRaised

\* C4: a scan that returned has completed every requested phase and carries no
\* error; a scan that threw has thrown a ScanError naming the failing phase and
\* the scanned root; a scan with a failed phase has thrown, never returned.
C4_ResultOrError ==
    /\ scan.pc = "returned"
           => /\ scan.error = NoError
              /\ Len(scan.started) = Len(scan.phases)
              /\ \A i \in Started : scan.started[i].status = "completed"
    /\ scan.pc = "thrown"
           => /\ scan.error.name = "ScanError"
              /\ scan.started # <<>>
              /\ scan.started[Len(scan.started)].status = "failed"
              /\ scan.error.phase = scan.started[Len(scan.started)].phase
              /\ scan.error.path = scan.project.name
    /\ (\E i \in Started : scan.started[i].status = "failed") => scan.pc = "thrown"

\* C5: every scan invocation that has ended, by returning or by throwing, has
\* run the finalize step.
C5_FinalizeAlwaysRuns == ScanEnded => scan.finalized

\* C6: after a scan has returned, scannedFiles <= totalFiles, ignoredFiles =
\* totalFiles - scannedFiles, coverage = 100 * scannedFiles / totalFiles, and
\* coverage = 0 when totalFiles = 0.
C6_StatisticsConsistent ==
    scan.pc = "returned"
        => LET s == scanResult.scanStatistics
           IN /\ s.scannedFiles <= s.totalFiles
              /\ s.ignoredFiles = s.totalFiles - s.scannedFiles
              /\ s.totalFiles > 0 => s.coverage.num * s.totalFiles = s.scannedFiles * s.coverage.den
              /\ s.totalFiles = 0 => s.coverage.num = 0

\* The Quick phase of the current scan has just completed: what it left in the
\* accumulator is still there.
QuickJustCompleted ==
    /\ scan.pc = "loop"
    /\ scan.started # <<>>
    /\ scan.started[Len(scan.started)].phase = "quick"
    /\ scan.started[Len(scan.started)].status = "completed"

\* C13: after the Quick phase on the tree with packages/a/package.json,
\* packages/a/index.js and packages/b/pyproject.toml whose root ignore file holds
\* `packages/a/**`, exactly one module is reported, packages/b, and ignoredFiles =
\* totalFiles - scannedFiles counts the files of packages/a.
C13_IgnoredModuleNotReported ==
    (QuickJustCompleted /\ scan.project.name = "mono") =>
        /\ Len(scanResult.modules) = 1
        /\ scanResult.modules[1].path = <<"packages", "b">>
        /\ scanResult.scanStatistics.ignoredFiles
               = scanResult.scanStatistics.totalFiles - scanResult.scanStatistics.scannedFiles
        /\ scanResult.scanStatistics.ignoredFiles
               >= Cardinality({ f \in scan.project.files :
                                   Len(f) >= 2 /\ SubSeq(f, 1, 2) = <<"packages", "a">> })

\* The tree of the current scan holds no manifest and no source file.
NothingToDetect ==
    /\ scan.project.files \cap (GlobMatches(SourceGlob) \cup GlobMatches(ConfigGlob)) = {}
    /\ \A dir \in scan.project.dirs \cup {Root} :
           ~isModuleRoot(initializeDetectors, ProjListing(scan.project, dir))

\* C14: the result returned by a scan with the Quick phase on a tree without
\* manifest and source files has project type unknown, modulesFound = 0, a
\* high-priority scan_deeper recommendation and a medium-priority add_config one.
C14_UnknownProjectAdvice ==
    (scan.pc = "returned" /\ scan.phases = <<"quick">> /\ NothingToDetect) =>
        /\ scanResult.projectType = UNKNOWN
        /\ scanResult.scanStatistics.modulesFound = 0
        /\ \E i \in 1..Len(scanResult.recommendations) :
               scanResult.recommendations[i] = [type |-> "scan_deeper", priority |-> "high"]
        /\ \E i \in 1..Len(scanResult.recommendations) :
               scanResult.recommendations[i] = [type |-> "add_config", priority |-> "medium"]

\* The module list in the accumulator was written by a Quick phase of the current scan.
ModulesOfThisScan ==
    \E i \in Started : scan.started[i].phase = "quick" /\ scan.started[i].status = "completed"

\* C15: every ModuleInfo of the module list has a type other than unknown and a
\* path for which the detect of some registered detector is true.
C15_ModulesAreDetected ==
    ModulesOfThisScan =>
        \A i \in 1..Len(scanResult.modules) :
            /\ scanResult.modules[i].type # UNKNOWN
            /\ \E k \in 1..Len(initializeDetectors) :
                   DetectorDetect(initializeDetectors[k].detector,
                                  ProjListing(scan.project, scanResult.modules[i].path))

\* A Quick phase that reported two modules of different types.
C15_Witness ==
    /\ ModulesOfThisScan
    /\ Len(scanResult.modules) = 2
    /\ scanResult.modules[1].type # scanResult.modules[2].type

\* The phase records of the current invocation that completed.
CompletedOfThisScan == SelectSeq(scan.started, LAMBDA r : r.status = "completed")

\* C16: the result a scan returns holds the phase records of that invocation only,
\* and no later step on the scanner changes a result that has been returned (scan
\* returns the accumulator object itself, so the returned result is scanResult).
C16_ResultOfOneInvocation ==
    /\ [](scan.pc = "returned" => scanResult.scanPhases = CompletedOfThisScan)
    /\ [][scan.pc = "returned" => scanResult' = scanResult]_vars

\* C19: when scan has returned, the recommendations of the result are exactly those
\* of the final pass over the final state (scan_deeper/medium when coverage is below
\* 50, add_docs/high when a module has no docs); what a phase had set is gone.
C19_FinalRecommendationsReplace ==
    scan.pc = "returned" =>
        scanResult.recommendations =
            (IF 100 * scanResult.scanStatistics.coverage.num
                    < 50 * scanResult.scanStatistics.coverage.den
             THEN << [type |-> "scan_deeper", priority |-> "medium"] >> ELSE <<>>)
            \o (IF \E i \in 1..Len(scanResult.modules) : Len(scanResult.modules[i].docs) = 0
                THEN << [type |-> "add_docs", priority |-> "high"] >> ELSE <<>>)

\* A returned scan whose only phase was Quick, which found no module and no project
\* type and so had set scan_deeper/high and add_config/medium: only the final
\* pass's entry is left.
C19_Witness ==
    /\ scan.pc = "returned"
    /\ scan.phases = <<"quick">>
    /\ Len(scan.started) = 1
    /\ scanResult.projectType = UNKNOWN
    /\ scanResult.scanStatistics.modulesFound = 0
    /\ scanResult.recommendations = << [type |-> "scan_deeper", priority |-> "medium"] >>

\* The record of the i-th scanPhase call of the current scan went through one
\* transition: it is the record created running for that phase at startTime, ended
\* as completed without error or as failed with the error message, with duration =
\* endTime - startTime.
EndedOnce(r) ==
    /\ [r EXCEPT !.status = "running", !.endTime = r.startTime, !.duration = 0,
                 !.error = "", !.filesProcessed = 0]
           = runningRecord(r.phase, r.startTime)
    /\ r.status \in {"completed", "failed"}
    /\ r.status = "completed" => r.error = ""
    /\ r.status = "failed" => r.error # ""
    /\ r.duration = r.endTime - r.startTime

\* C20: every scanPhase call leaves one record of its own, created running and ended
\* exactly once as completed or failed (with the error message) with duration =
\* endTime - startTime; a step adds at most the record of the phase it ran and never
\* changes a record that has ended, in the scan's history or in the result.
C20_PhaseRecordLifecycle ==
    /\ [](\A i \in Started : EndedOnce(scan.started[i]))
    /\ [][ /\ Len(scan'.started) <= Len(scan.started) + 1
            /\ (Len(scan'.started) = Len(scan.started) + 1
                   => scan'.started[Len(scan'.started)].phase = Head(scan.left))
            /\ (Len(scan'.started) >= Len(scan.started)
                   => \A i \in Started : scan'.started[i] = scan.started[i])
            /\ \A i \in 1..Len(scanResult.scanPhases) :
                   /\ Len(scanResult'.scanPhases) >= i
                   /\ scanResult'.scanPhases[i] = scanResult.scanPhases[i] ]_vars

\* A scan whose first phase completed after 1 ms and whose second phase, started at
\* that time, failed after another 1 ms.
C20_Witness ==
    /\ Len(scan.started) = 2
    /\ scan.started[1].status = "completed" /\ scan.started[1].duration = 1
    /\ scan.started[2].status = "failed" /\ scan.started[2].error # ""
    /\ scan.started[2].startTime = 1 /\ scan.started[2].endTime = 2
    /\ scan.started[2].duration = 1

\* The accumulator holds the recommendation of this type and priority.
Recommends(type, priority) ==
    \E i \in 1..Len(scanResult.recommendations) :
        scanResult.recommendations[i] = [type |-> type, priority |-> priority]

\* The number of Quick-phase checks whose condition holds in the accumulator.
QuickChecksHolding ==
    Cardinality({ k \in 1..4 :
        \/ k = 1 /\ scanResult.scanStatistics.modulesFound = 0
        \/ k = 2 /\ CoverageBelow(scanResult.scanStatistics.coverage, 30)
        \/ k = 3 /\ scanResult.projectType = UNKNOWN
        \/ k = 4 /\ scanResult.scanStatistics.modulesFound > 0 })

\* C23 (as amended): after the Quick phase each of the four checks has fired exactly
\* when its own condition holds (no modules -> high scan_deeper; coverage < 30 ->
\* medium scan_deeper; type unknown -> medium add_config; modules found -> low
\* scan_deeper), none suppresses another, and since the first and the fourth
\* condition exclude each other at most three fire in one run.
C23_QuickChecksFireOnOwnCondition ==
    QuickJustCompleted =>
        /\ Recommends("scan_deeper", "high") <=> scanResult.scanStatistics.modulesFound = 0
        /\ Recommends("scan_deeper", "medium")
               <=> CoverageBelow(scanResult.scanStatistics.coverage, 30)
        /\ Recommends("add_config", "medium") <=> scanResult.projectType = UNKNOWN
        /\ Recommends("scan_deeper", "low") <=> scanResult.scanStatistics.modulesFound > 0
        /\ scanResult.scanStatistics.modulesFound = Len(scanResult.modules)
        /\ Len(scanResult.recommendations) = QuickChecksHolding
        /\ Len(scanResult.recommendations) <= 3

\* A Quick phase after which three checks have fired together.
C23_Witness ==
    /\ QuickJustCompleted
    /\ Len(scanResult.recommendations) = 3
    /\ Recommends("scan_deeper", "high")
    /\ Recommends("scan_deeper", "medium")
    /\ Recommends("add_config", "medium")

\* C23 as stated: the four checks fire on their own conditions and all four may fire
\* in the same run, i.e. some statistics and project type make
\* generateQuickRecommendations set four recommendations.
C23_AllFourMayFire ==
    /\ QuickJustCompleted => Len(scanResult.recommendations) = QuickChecksHolding
    /\ \E modulesFound \in 0..2, scanned \in 0..1, projectType \in {UNKNOWN, "go"} :
           Len(generateQuickRecommendations(
                   [scanResult EXCEPT !.projectType = projectType,
                                      !.scanStatistics.modulesFound = modulesFound,
                                      !.scanStatistics.coverage = [num |-> scanned, den |-> 1]]
               ).recommendations) = 4

\* C26: a scan without a phases option takes quick, module, deep: when it has ended,
\* quick has completed, module has failed with UNSUPPORTED_PHASE, that error is what
\* the caller got, and deep was never started.
C26_DefaultPhasesStopAtModule ==
    (ScanEnded /\ scan.phases = DefaultPhases) =>
        /\ Len(scan.started) = 2
        /\ scan.started[1].phase = "quick" /\ scan.started[1].status = "completed"
        /\ scan.started[2].phase = "module" /\ scan.started[2].status = "failed"
        /\ scan.pc = "thrown"
        /\ scan.error.code = "UNSUPPORTED_PHASE"

\* The files of the scanned tree in a readable directory of depth at most maxDepth
\* that are not below a hidden directory.
EnumerableFiles ==
    { f \in scan.project.files :
        /\ Len(f) - 1 <= config.maxDepth
        /\ \A k \in 0..(Len(f) - 1) : SubSeq(f, 1, k) \notin scan.project.unreadable
        /\ \A k \in 1..(Len(f) - 1) : ~StartsWithDot(f[k]) }

\* C27: a completed Quick phase has enumerated every file below the root that lies in
\* a directory of depth at most maxDepth and not under a hidden directory, and no
\* other file; an unreadable directory removes only its own subtree.
C27_EnumerationIsComplete ==
    \A i \in Started :
        (scan.started[i].phase = "quick" /\ scan.started[i].status = "completed")
            => scan.enumerated[i] = Cardinality(EnumerableFiles)

\* C28: the aggregate byte size of the statistics tracks the files enumerated, and a
\* Quick phase whose enumerated bytes reach memoryLimit is aborted with a memory-limit
\* error.  Every file of the scanned trees holds at least one byte, so n enumerated
\* files are at least n bytes.
C28_MemoryLimitAbortsPhase ==
    /\ QuickJustCompleted
           => scanResult.scanStatistics.fileSize >= scan.enumerated[Len(scan.started)]
    /\ \A i \in Started :
           (scan.started[i].phase = "quick" /\ scan.enumerated[i] >= config.memoryLimit)
               => /\ scan.started[i].status = "failed"
                  /\ scan.limitRaised = "MEMORY_LIMIT_EXCEEDED"

\* The path matches an exclude filter of the ScanConfig the scanner was built with.
ExcludedByConfig(path) ==
    \E i \in 1..Len(config.fileFilters) :
        /\ config.fileFilters[i].action = "exclude"
        /\ matchPattern(path, config.fileFilters[i].pattern)

\* C29: the file filters of the ScanConfig given to QuickScanner take effect: after a
\* Quick phase no file matching an exclude filter of config.fileFilters is in the
\* scanned subset, and scannedFiles counts none of them.
C29_ConfigFiltersTakeEffect ==
    QuickJustCompleted =>
        /\ \A path \in DOMAIN fileFilter.ignoreCache :
               ExcludedByConfig(path) => ~fileFilter.ignoreCache[path]
        /\ scanResult.scanStatistics.scannedFiles
               <= Cardinality({ path \in scan.project.files : ~ExcludedByConfig(path) })

\* C30: every record stored in scanResult.scanPhases has status completed; the
\* record of a running or failed phase is never stored in the result.
C30_StoredRecordsCompleted ==
    \A i \in 1..Len(scanResult.scanPhases) : scanResult.scanPhases[i].status = "completed"

\* A scan has thrown after a completed and a failed phase: the result holds the
\* record of the completed phase and not that of the failed one.
C30_Witness ==
    /\ scan.pc = "thrown"
    /\ Len(scan.started) = 2
    /\ scan.started[2].status = "failed"
    /\ \E i \in 1..Len(scanResult.scanPhases) : scanResult.scanPhases[i] = scan.started[1]
    /\ \A i \in 1..Len(scanResult.scanPhases) : scanResult.scanPhases[i] # scan.started[2]

(***************************************************************************)
(* Properties of the file filter (specification FilterSpec).               *)
(***************************************************************************)
ExcludeMatches(ff, path) ==
    \E i \in 1..Len(ff.excludeFilters) : matchPattern(path, ff.excludeFilters[i].pattern)

\* C7: shouldInclude returns false for a path that an ignore rule in force
\* matches, whatever include filters match it and whatever the priorities are.
C7_IgnoreDominates ==
    (lastCall.called /\ shouldIgnore(fileFilter, lastCall.path)) => lastCall.result = FALSE

\* shouldInclude answered false for a path fs.stat succeeds on, that an ignore
\* rule matches and that an include filter of higher priority than every
\* matching ignore rule matches too.
C7_Witness ==
    /\ lastCall.called
    /\ lastCall.statOk
    /\ lastCall.result = FALSE
    /\ shouldIgnore(fileFilter, lastCall.path)
    /\ \E i \in 1..Len(fileFilter.includeFilters) :
          /\ matchPattern(lastCall.path, fileFilter.includeFilters[i].pattern)
          /\ \A j \in 1..Len(fileFilter.ignoreRules) :
                matchPattern(lastCall.path, fileFilter.ignoreRules[j].pattern)
                    => fileFilter.ignoreRules[j].priority < fileFilter.includeFilters[i].priority

\* C8: for a path fs.stat succeeds on and no ignore rule matches, shouldInclude
\* returns false when an exclude filter in force matches it and true otherwise.
C8_ExcludeThenFailOpen ==
    (lastCall.called /\ lastCall.statOk /\ ~shouldIgnore(fileFilter, lastCall.path))
        => lastCall.result = ~ExcludeMatches(fileFilter, lastCall.path)

\* C9: what shouldInclude returns is the decision computed from the ignore
\* rules and the filters in force at the time of the call.
C9_CacheNeverStale ==
    lastCall.called
        => lastCall.result = computeInclude(fileFilter, lastCall.path, lastCall.statOk)

OutermostModuleRoots ==
    { d \in Dirs :
        /\ isModuleRoot(initializeDetectors, TreeListing(tree, d))
        /\ d \notin tree.hidden
        /\ Cardinality(Ancestors(tree, d)) - 1 <= found.maxDepth
        /\ Ancestors(tree, d) \cap (tree.hidden \cup tree.unreadable) = {}
        /\ \A a \in Ancestors(tree, d) \ {0} :
               ~isModuleRoot(initializeDetectors, TreeListing(tree, a)) }

\* C22: findModules(root, maxDepth) returns every outermost module root of the tree:
\* each visible directory within maxDepth that is a module root and is reached only
\* through visible directories that are not module roots.
C22_OutermostModuleRoots ==
    found.called
        => { found.modules[i] : i \in 1..Len(found.modules) } = OutermostModuleRoots

(***************************************************************************)
(* Claims about the DetectorManager (ManagerSpec).                         *)
(***************************************************************************)
\* The registrations whose detector matched the directory of the last call.
Matching == { i \in 1..Len(registry) : DetectorDetect(registry[i].detector, managerCall.dir) }

Score(i) == calculateConfidence(registry[i].type, registry[i].detector)

Detected == managerCall.called /\ managerCall.op = "detectProjectType"

\* C11: detectProjectType returns Unknown when no registered detector matches the
\* directory; otherwise it returns the type of a matching registration that no
\* other matching registration outscores, and among equal scores the one that
\* was registered first.
C11_HighestFirstRegistered ==
    Detected =>
        IF Matching = {} THEN managerCall.type = UNKNOWN
        ELSE \E i \in Matching :
                 /\ managerCall.type = registry[i].type
                 /\ \A j \in Matching :
                        Score(j) < Score(i) \/ (Score(j) = Score(i) /\ i <= j)

\* A lower-scoring match registered before two equal top-scoring matches: the
\* first of the two top-scoring ones is returned.
C11_Witness ==
    /\ Detected
    /\ \E i, j, k \in Matching :
           /\ i < j /\ j < k
           /\ Score(i) < Score(j) /\ Score(j) = Score(k)
           /\ \A m \in Matching : Score(m) <= Score(j)
           /\ \A m \in Matching : Score(m) = Score(j) => j <= m
           /\ managerCall.type = registry[j].type

Analyzed == managerCall.called /\ managerCall.op = "analyzeModule"

\* The `module <path>` and `go <version>` lines of the go.mod of the last call's directory.
ModuleLines == { i \in 1..Len(managerCall.dir.gomod.lines) :
                    Len(managerCall.dir.gomod.lines[i]) = 2
                    /\ managerCall.dir.gomod.lines[i][1] = "module" }

GoLines == { i \in 1..Len(managerCall.dir.gomod.lines) :
                Len(managerCall.dir.gomod.lines[i]) = 2
                /\ managerCall.dir.gomod.lines[i][1] = "go" }

OtherManifests ==
    { JavaScriptPatterns[i] : i \in 1..Len(JavaScriptPatterns) }
        \cup { PythonPatterns[i] : i \in 1..Len(PythonPatterns) } \cup { "Cargo.toml" }

\* The last call was made on a default manager, on a directory holding main.go and a
\* readable go.mod with a module line and a go line, and no other manifest.
GoScenario ==
    /\ managerCall.called
    /\ registry = initializeDetectors
    /\ {"go.mod", "main.go"} \subseteq managerCall.dir.files
    /\ managerCall.dir.files \cap OtherManifests = {}
    /\ managerCall.dir.gomod.readable
    /\ ModuleLines # {} /\ GoLines # {}

\* C12: on a directory with go.mod (holding a module line and a go line) and main.go and
\* no other manifest, detectProjectType returns go, and analyzeModule returns a
\* ModuleInfo named after the module path whose engines map go to the version.
C12_GoModule ==
    GoScenario =>
        /\ managerCall.given = Undefined => managerCall.type = "go"
        /\ Analyzed /\ managerCall.given \in {Undefined, "go"} =>
               /\ managerCall.result.outcome = "returned"
               /\ managerCall.result.info.type = "go"
               /\ \E i \in ModuleLines :
                      managerCall.result.info.name = managerCall.dir.gomod.lines[i][2]
               /\ \E i \in GoLines :
                      managerCall.result.info.engines
                          = { <<"go", managerCall.dir.gomod.lines[i][2]>> }

\* analyzeModule without a type on a go.mod whose go line comes before the module line
\* and which also lists requirements.
C12_Witness ==
    /\ GoScenario /\ Analyzed /\ managerCall.given = Undefined
    /\ managerCall.dir.base = "svc"
    /\ managerCall.result.outcome = "returned"
    /\ managerCall.result.info.name = "example.com/bar"
    /\ managerCall.result.info.engines = { <<"go", "1.22">> }

\* The detectors registered for the type of the last call (at most one).
RegisteredFor == { registry[i].detector : i \in { j \in 1..Len(registry) :
                                                    registry[j].type = managerCall.type } }

\* The detector's analyze throws on the directory: JavaScriptProjectDetector without a
\* package.json it can parse.
AnalyzeFails ==
    /\ "JavaScript/TypeScript" \in RegisteredFor
    /\ ("package.json" \notin managerCall.dir.files \/ managerCall.dir.invalidJson)

\* C17: analyzeModule throws a classification error and returns no ModuleInfo when
\* the given or detected type is unknown (UNKNOWN_PROJECT_TYPE) or has no registered
\* detector (DETECTOR_NOT_FOUND), a type removed by unregisterDetector included; when
\* the detector's analyze throws, it throws MODULE_ANALYSIS_FAILED.
C17_ClassificationErrors ==
    Analyzed =>
        /\ managerCall.type = UNKNOWN =>
               managerCall.result = Thrown("UNKNOWN_PROJECT_TYPE")
        /\ (managerCall.type # UNKNOWN /\ RegisteredFor = {}) =>
               managerCall.result = Thrown("DETECTOR_NOT_FOUND")
        /\ (managerCall.type # UNKNOWN /\ AnalyzeFails) =>
               managerCall.result = Thrown("MODULE_ANALYSIS_FAILED")

\* analyzeModule(dir, go) on a Go directory after unregisterDetector(go).
C17_Witness ==
    /\ Analyzed
    /\ managerCall.given = "go"
    /\ managerCall.dir.base = "project"
    /\ \A i \in 1..Len(registry) : registry[i].type # "go"
    /\ managerCall.result = Thrown("DETECTOR_NOT_FOUND")

(***************************************************************************)
(* Claims about ZcfInitProject.scanOnly (InitProjectSpec).                 *)
(***************************************************************************)
\* C18: scanOnly returns a ScanResult whose statistics agree with its module list, or
\* throws a ScanError SCAN_FAILED carrying the project path; on a tree with an
\* unreadable directory, a file that cannot be stat'ed or a candidate of unknown
\* type it returns.
C18_ScanOnlyReturnsOrFails ==
    scanOnlyCall.called =>
        /\ \/ /\ scanOnlyCall.thrown = NoError
              /\ scanOnlyCall.result.statistics.modulesFound
                     = Cardinality(scanOnlyCall.result.modules)
              /\ scanOnlyCall.result.statistics.scannedFiles
                     <= scanOnlyCall.result.statistics.totalFiles
              /\ \A m \in scanOnlyCall.result.modules : m.type # UNKNOWN
           \/ /\ scanOnlyCall.thrown.name = "ScanError"
              /\ scanOnlyCall.thrown.code = "SCAN_FAILED"
              /\ scanOnlyCall.thrown.path = scanOnlyCall.project.name
        /\ scanOnlyCall.project.unreadable # {} => scanOnlyCall.thrown = NoError
        /\ scanOnlyCall.project.broken # {} => scanOnlyCall.thrown = NoError
        /\ (\E f \in scanOnlyCall.project.files : Last(f) = "Cargo.toml")
               => scanOnlyCall.thrown = NoError

\* scanOnly on the tree with an unreadable directory and a Cargo.toml at its root: it
\* returns the one module below svc and counts the two files it could list.
C18_Witness ==
    /\ scanOnlyCall.called
    /\ scanOnlyCall.project.name = "crate"
    /\ scanOnlyCall.thrown = NoError
    /\ scanOnlyCall.result.statistics.totalFiles = 2
    /\ { m.path : m \in scanOnlyCall.result.modules } = { <<"svc">> }

\* The declared patterns of registration i that exist below the directory of the
\* last call, and the bonus its type earns from the manifest found there.
PresentPatterns(i) ==
    { k \in 1..Len(DetectorPatterns(registry[i].detector)) :
          DetectorPatterns(registry[i].detector)[k] \in managerCall.dir.files }

PresentBonus(i) ==
    CASE registry[i].type = "go" /\ "go.mod" \in managerCall.dir.files -> 25
      [] registry[i].type = "typescript" /\ "tsconfig.json" \in managerCall.dir.files -> 20
      [] registry[i].type = "python" /\ "pyproject.toml" \in managerCall.dir.files -> 15
      [] OTHER -> 0

\* C21: the confidence of a matching detector is min(100, 50 + 10 * (number of its
\* declared patterns present on disk under the path) + bonus), the bonus being 25
\* for Go with go.mod present, 20 for TypeScript with tsconfig.json present, 15
\* for Python with pyproject.toml present, and 0 otherwise.
C21_ConfidenceCountsPresentPatterns ==
    Detected =>
        \A i \in Matching :
            Score(i) = Min(100, 50 + 10 * Cardinality(PresentPatterns(i)) + PresentBonus(i))

\* The entries of the require directives of a go.mod, read as the go tool reads them:
\* `require <path> <version>` on one line, and the lines between `require (` and `)`.
RECURSIVE DeclaredRequirements(_, _)
DeclaredRequirements(lines, inBlock) ==
    IF lines = <<>> THEN <<>>
    ELSE LET line == Head(lines)
         IN IF inBlock
            THEN IF line = <<")">> THEN DeclaredRequirements(Tail(lines), FALSE)
                 ELSE IF Len(line) >= 2 /\ line[1] # "//"
                 THEN << [path |-> line[1], version |-> line[2]] >>
                          \o DeclaredRequirements(Tail(lines), TRUE)
                 ELSE DeclaredRequirements(Tail(lines), TRUE)
            ELSE IF line = <<"require", "(">> THEN DeclaredRequirements(Tail(lines), TRUE)
                 ELSE IF Len(line) >= 3 /\ line[1] = "require"
                 THEN << [path |-> line[2], version |-> line[3]] >>
                          \o DeclaredRequirements(Tail(lines), FALSE)
                 ELSE DeclaredRequirements(Tail(lines), FALSE)

\* C24: readGoMod records as requirements exactly the entries of the require
\* directives of go.mod, single-line and parenthesized, in file order, and no other
\* line (a replace line, a line after the block has closed).
C24_RequirementsOfRequireDirectives ==
    (managerCall.called /\ managerCall.dir.gomod.readable) =>
        readGoMod(managerCall.dir).require
            = DeclaredRequirements(managerCall.dir.gomod.lines, FALSE)

\* C25: GoProjectDetector.analyze terminates on every directory; when go.mod is
\* absent, unreadable or has no module line, the ModuleInfo it returns is named
\* after the base name of the directory.
C25_GoAnalyzeFallsBackToDirectoryName ==
    (Analyzed /\ RegisteredFor = {"Go"}) =>
        /\ managerCall.result.outcome = "returned"
        /\ readGoMod(managerCall.dir).module = ""
               => managerCall.result.info.name = managerCall.dir.base
====
